---- MODULE Spec2Model ----
(***************************************************************************)
(* Verification model of the vex / zen validation engine and its JIT       *)
(* compiler (packages/zen-full/src/jit.ts, packages/core/src/schemas,      *)
(* packages/zen-full/src/schemas/modifiers.ts, zen-mini).                  *)
(*                                                                         *)
(* JavaScript values, schema nodes and results are records; a string is    *)
(* the sequence of its characters; a number n/2 is kept as the integer n   *)
(* (so 1.5 is 3 halves) with the non-finite numbers marked in sp.          *)
(***************************************************************************)
EXTENDS Integers, Sequences, FiniteSets, TLC

\* ------------------------------------------------------------------
\* Bounds
\* ------------------------------------------------------------------
\* how many validator function objects jit()/jitObject()/compile() may create
MaxValidators == 2

\* ------------------------------------------------------------------
\* JavaScript values
\* ------------------------------------------------------------------
Undef == [k |-> "undefined"]
Null == [k |-> "null"]
Str(cs) == [k |-> "string", s |-> cs]
Num(halves) == [k |-> "number", n |-> halves, sp |-> "finite"]
NaN == [k |-> "number", n |-> 0, sp |-> "NaN"]
Infinity == [k |-> "number", n |-> 0, sp |-> "Infinity"]
Bool(b) == [k |-> "boolean", b |-> b]
Arr(es) == [k |-> "array", e |-> es]
\* an object is the sequence of its own enumerable entries, in insertion order
Entry(key, v) == [key |-> key, val |-> v]
Obj(entries) == [k |-> "object", f |-> entries]

\* typeof v
typeof(v) ==
  CASE v.k = "undefined" -> "undefined"
    [] v.k = "null" -> "object"
    [] v.k = "array" -> "object"
    [] OTHER -> v.k

\* Array.isArray(v)
isArray(v) == v.k = "array"

\* Object.keys(o) of an object value
ObjectKeys(o) == [i \in 1..Len(o.f) |-> o.f[i].key]

HasKey(o, key) == \E i \in 1..Len(o.f) : o.f[i].key = key

\* o[key] on an object value: own property or undefined
ObjGet(o, key) ==
  IF HasKey(o, key)
  THEN o.f[CHOOSE i \in 1..Len(o.f) : o.f[i].key = key].val
  ELSE Undef

\* output[key] = v on an object under construction
ObjSet(o, key, v) ==
  IF HasKey(o, key)
  THEN Obj([i \in 1..Len(o.f) |-> IF o.f[i].key = key THEN Entry(key, v) ELSE o.f[i]])
  ELSE Obj(Append(o.f, Entry(key, v)))

\* deep equality of two values; objects compare as key -> value maps
RECURSIVE DeepEq(_, _)
DeepEq(a, b) ==
  IF a.k # b.k THEN FALSE
  ELSE CASE a.k = "array" ->
              /\ Len(a.e) = Len(b.e)
              /\ \A i \in 1..Len(a.e) : DeepEq(a.e[i], b.e[i])
         [] a.k = "object" ->
              /\ Len(a.f) = Len(b.f)
              /\ \A i \in 1..Len(a.f) :
                   /\ HasKey(b, a.f[i].key)
                   /\ DeepEq(a.f[i].val, ObjGet(b, a.f[i].key))
         [] OTHER -> a = b

\* ------------------------------------------------------------------
\* Results, issues, thrown exceptions
\* ------------------------------------------------------------------
Key(s) == [key |-> s]
Idx(i) == [idx |-> i]
Issue(msg) == [message |-> msg]
IssueAt(msg, path) == [message |-> msg, path |-> path]
Ok(v) == [success |-> TRUE, data |-> v]
Fail(issues) == [success |-> FALSE, issues |-> issues]
\* an exception propagating out of the call instead of a returned Result;
\* err is the message of the Error thrown
Throw(err) == [thrown |-> err]

\* a block of a generated routine that falls through without returning
Pass == [pass |-> TRUE]

Thrown(r) == "thrown" \in DOMAIN r
Succeeded(r) == ~Thrown(r) /\ r.success
Failed(r) == ~Thrown(r) /\ ~r.success

\* issue.path ?? []
PathOf(issue) == IF "path" \in DOMAIN issue THEN issue.path ELSE <<>>

\* { message: issue.message, path: [seg, ...(issue.path ?? [])] }
Prefix(seg, issues) ==
  [i \in 1..Len(issues) |-> IssueAt(issues[i].message, <<seg>> \o PathOf(issues[i]))]

\* the (message, path) pairs of a failure, in order
Pairs(r) == [i \in 1..Len(r.issues) |-> <<r.issues[i].message, PathOf(r.issues[i])>>]

\* ------------------------------------------------------------------
\* Strings
\* ------------------------------------------------------------------
chars_a_b == <<"a", "b">>
chars_abc == <<"a", "b", "c">>
chars_invalid == <<"i", "n", "v", "a", "l", "i", "d">>
chars_email == <<"a", "@", "b", ".", "c">>
chars_email2 == <<"a", "@", "b", "@", "c", ".", "d">>

\* v.indexOf(c), 0-based, -1 when absent
indexOf(cs, c) ==
  IF \E i \in 1..Len(cs) : cs[i] = c
  THEN (CHOOSE i \in 1..Len(cs) : cs[i] = c /\ \A j \in 1..(i - 1) : cs[j] # c) - 1
  ELSE -1

\* v.lastIndexOf(c), 0-based, -1 when absent
lastIndexOf(cs, c) ==
  IF \E i \in 1..Len(cs) : cs[i] = c
  THEN (CHOOSE i \in 1..Len(cs) : cs[i] = c /\ \A j \in (i + 1)..Len(cs) : cs[j] # c) - 1
  ELSE -1

\* v.includes(c)
includes(cs, c) == \E i \in 1..Len(cs) : cs[i] = c

\* v.startsWith(prefix)
startsWith(cs, prefix) ==
  /\ Len(cs) >= Len(prefix)
  /\ \A i \in 1..Len(prefix) : cs[i] = prefix[i]

\* /^[^\s@]+@[^\s@]+\.[^\s@]+$/.test(v)
EmailRegex(cs) ==
  /\ ~includes(cs, " ")
  /\ Cardinality({i \in 1..Len(cs) : cs[i] = "@"}) = 1
  /\ \E d \in 1..Len(cs) :
       /\ cs[d] = "."
       /\ indexOf(cs, "@") >= 1
       /\ d - 1 > indexOf(cs, "@") + 1
       /\ d - 1 < Len(cs) - 1

\* ------------------------------------------------------------------
\* User-supplied callbacks: predicates of checks and refinements, mapping
\* functions of transforms.  A callback is a descriptor; Apply* is what
\* calling it does.  "throw" is a callback that throws.
\* ------------------------------------------------------------------
Pred(op, n) == [op |-> op, n |-> n]
Check(name, pred, message) == [name |-> name, check |-> pred, message |-> message]

\* v.length: the length of a string or array, undefined (-1) on other
\* values; reading it off undefined or null throws a TypeError (-2)
JsLength(v) ==
  CASE v.k = "string" -> Len(v.s)
    [] v.k = "array" -> Len(v.e)
    [] v.k \in {"undefined", "null"} -> -2
    [] OTHER -> -1

\* check.check(value): "true", "false" or "throw"
ApplyPred(p, v) ==
  CASE p.op = "always" -> "true"
    [] p.op = "throw" -> "throw"
    [] p.op = "minLength" ->
         IF JsLength(v) = -2 THEN "throw"
         ELSE IF JsLength(v) >= p.n THEN "true" ELSE "false"
    [] p.op = "emailRegex" ->
         IF v.k = "string" /\ EmailRegex(v.s) THEN "true" ELSE "false"
    [] p.op = "isInteger" ->
         IF v.k = "number" /\ v.sp = "finite" /\ v.n % 2 = 0 THEN "true" ELSE "false"
    [] p.op = "positive" ->
         IF v.k = "number" /\ ((v.sp = "finite" /\ v.n > 0) \/ v.sp = "Infinity")
         THEN "true" ELSE "false"
    [] OTHER -> "false"

\* fn(value) of a transform: the mapped value, or Throw
ApplyFn(fn, v) ==
  CASE fn = "length" -> IF v.k = "string" THEN Ok(Num(2 * Len(v.s))) ELSE Ok(Undef)
    [] fn = "throw" -> Throw("boom")
    [] OTHER -> Ok(v)

\* ------------------------------------------------------------------
\* Schema nodes
\* ------------------------------------------------------------------
\* createSchema(typeName, typeCheck, checks, transform); _type is the tag
\* jit.ts reads off the node ("none" when the node carries no _type)
createSchema(typeName, tag, checks, transform) ==
  [kind |-> "schema", typeName |-> typeName, _type |-> tag,
   _checks |-> checks, transform |-> transform]

Field(key, schema) == [key |-> key, schema |-> schema]

\* createObjectSchema(shape, options)
createObjectSchema(shape, strictOpt, passthroughOpt) ==
  [kind |-> "object", shape |-> shape, strict |-> strictOpt,
   passthrough |-> passthroughOpt, _checks |-> <<>>]

\* array(element); exposes its element node
array(element) == [kind |-> "array", element |-> element, _checks |-> <<>>]

refine(schema, check, message) ==
  [kind |-> "refine", inner |-> schema, check |-> check, message |-> message,
   _checks |-> <<>>]

transform(schema, fn) ==
  [kind |-> "transform", inner |-> schema, fn |-> fn, _checks |-> <<>>]

withDefault(schema, defaultValue) ==
  [kind |-> "default", inner |-> schema, defaultValue |-> defaultValue,
   _checks |-> <<>>]

\* withCatch(schema, catchValue)
withCatch(schema, catchValue) ==
  [kind |-> "catch", inner |-> schema, catchValue |-> catchValue, _checks |-> <<>>]

\* lazy(getter): getter is the name of the schema the getter returns
lazy(getter) == [kind |-> "lazy", getter |-> getter, _checks |-> <<>>]

\* zen-mini createSchema(validate, checks) over a primitive validate
miniSchema(typeName, checks) ==
  [kind |-> "mini", typeName |-> typeName, _checks |-> checks]

\* zen-full createObjectSchema(shape, options); exposes its shape
zenObject(shape, strictOpt, passthroughOpt) ==
  [kind |-> "zobject", shape |-> shape, strict |-> strictOpt,
   passthrough |-> passthroughOpt, _checks |-> <<>>]

\* zen-full createTupleSchema(items)
tuple(items) == [kind |-> "tuple", items |-> items, _checks |-> <<>>]

\* zen-mini record(valueSchema)
record(valueSchema) == [kind |-> "record", value |-> valueSchema, _checks |-> <<>>]

\* union(options) / or(...schemas)
union(options) == [kind |-> "union", options |-> options, _checks |-> <<>>]

\* intersection(left, right)
intersection(left, right) ==
  [kind |-> "intersection", left |-> left, right |-> right, _checks |-> <<>>]

\* optional(schema); also the wrapper partial() puts around a field
optional(schema) == [kind |-> "optional", inner |-> schema, _checks |-> <<>>]

\* the type test createSchema is given for each type name
fastCheck(typeName, v) ==
  CASE typeName = "ZodString" -> typeof(v) = "string"
    [] typeName = "ZodNumber" -> typeof(v) = "number" /\ v.sp = "finite"
    [] typeName = "ZodBoolean" -> typeof(v) = "boolean"
    [] OTHER -> TRUE

\* `Expected ${typeName.replace('Zod', '').toLowerCase()}`
ExpectedMessage(typeName) ==
  CASE typeName = "ZodString" -> "Expected string"
    [] typeName = "ZodNumber" -> "Expected number"
    [] typeName = "ZodBoolean" -> "Expected boolean"
    [] OTHER -> "Expected any"

\* `Unexpected property "${key}"`
UnexpectedMessage(key) == "Unexpected property \"" \o key \o "\""

\* ------------------------------------------------------------------
\* The generic interpreter: schema.safeParse(data)
\* ------------------------------------------------------------------
\* the checks loop of createSchema.safeParse from index i on: every failing
\* check adds its issue; a throwing predicate propagates
RECURSIVE RunChecks(_, _, _, _)
RunChecks(checks, i, data, issues) ==
  IF i > Len(checks) THEN Fail(issues)
  ELSE LET r == ApplyPred(checks[i].check, data) IN
       IF r = "throw" THEN Throw("boom")
       ELSE IF r = "false"
            THEN RunChecks(checks, i + 1, data, Append(issues, Issue(checks[i].message)))
            ELSE RunChecks(checks, i + 1, data, issues)

\* createSchema(...).safeParse(data)
createSchema_safeParse(node, data) ==
  IF ~fastCheck(node.typeName, data)
  THEN Fail(<<Issue(ExpectedMessage(node.typeName))>>)
  ELSE LET c == RunChecks(node._checks, 1, data, <<>>) IN
       IF Thrown(c) THEN c
       ELSE IF Len(c.issues) > 0 THEN c
       ELSE IF node.transform = "none" THEN Ok(data)
       ELSE ApplyFn(node.transform, data)

\* a strict-mode loop that lets undeclared keys through
StrictIssues_lenient(shapeKeys, inputKeys, i, issues) == issues

\* the strict-mode loop over Object.keys(data)
RECURSIVE StrictIssues(_, _, _, _)
StrictIssues(shapeKeys, inputKeys, i, issues) ==
  IF i > Len(inputKeys) THEN issues
  ELSE IF inputKeys[i] \in shapeKeys
       THEN StrictIssues(shapeKeys, inputKeys, i + 1, issues)
       ELSE StrictIssues(shapeKeys, inputKeys, i + 1,
              Append(issues, IssueAt(UnexpectedMessage(inputKeys[i]), <<Key(inputKeys[i])>>)))

\* the passthrough loop over Object.entries(data)
RECURSIVE PassthroughKeys(_, _, _, _)
PassthroughKeys(shapeKeys, data, i, output) ==
  IF i > Len(data.f) THEN output
  ELSE IF data.f[i].key \in shapeKeys
       THEN PassthroughKeys(shapeKeys, data, i + 1, output)
       ELSE PassthroughKeys(shapeKeys, data, i + 1, ObjSet(output, data.f[i].key, data.f[i].val))

RECURSIVE Getter(_)
RECURSIVE safeParse(_, _)
RECURSIVE ObjectFields(_, _, _, _, _)
RECURSIVE ArrayElements(_, _, _, _, _)
RECURSIVE ReturnsInput(_, _)
RECURSIVE ZenObjectFields(_, _, _, _, _)
RECURSIVE TupleItems(_, _, _, _, _)
RECURSIVE RecordEntries(_, _, _, _, _)
RECURSIVE UnionOptions(_, _, _)

\* the field loop of createObjectSchema(...).safeParse from field i on;
\* yields [issues, output] or a Throw
ObjectFields(shape, data, i, issues, output) ==
  IF i > Len(shape) THEN [issues |-> issues, output |-> output]
  ELSE LET key == shape[i].key
           result == safeParse(shape[i].schema, ObjGet(data, key))
       IN IF Thrown(result) THEN result
          ELSE IF result.success
          THEN ObjectFields(shape, data, i + 1, issues, ObjSet(output, key, result.data))
          ELSE ObjectFields(shape, data, i + 1, issues \o Prefix(Key(key), result.issues), output)

\* createObjectSchema(shape, options).safeParse(data)
createObjectSchema_safeParse(node, data) ==
  IF data.k # "object" THEN Fail(<<Issue("Expected object")>>)
  ELSE LET shapeKeys == {node.shape[i].key : i \in 1..Len(node.shape)}
           fields == ObjectFields(node.shape, data, 1, <<>>, Obj(<<>>))
       IN IF Thrown(fields) THEN fields
          ELSE LET issues == IF node.strict
                             THEN StrictIssues(shapeKeys, ObjectKeys(data), 1, fields.issues)
                             ELSE fields.issues
                   output == IF node.passthrough
                             THEN PassthroughKeys(shapeKeys, data, 1, fields.output)
                             ELSE fields.output
               IN IF Len(issues) > 0 THEN Fail(issues) ELSE Ok(output)

\* the element loop of array(element).safeParse from index i (1-based) on
ArrayElements(element, data, i, issues, output) ==
  IF i > Len(data.e) THEN [issues |-> issues, output |-> output]
  ELSE LET result == safeParse(element, data.e[i]) IN
       IF Thrown(result) THEN result
       ELSE IF result.success
       THEN ArrayElements(element, data, i + 1, issues, Append(output, result.data))
       ELSE ArrayElements(element, data, i + 1, issues \o Prefix(Idx(i - 1), result.issues), output)

\* array(element).safeParse(data)
array_safeParse(node, data) ==
  IF ~isArray(data) THEN Fail(<<Issue("Expected array")>>)
  ELSE LET elems == ArrayElements(node.element, data, 1, <<>>, <<>>) IN
       IF Thrown(elems) THEN elems
       ELSE IF Len(elems.issues) > 0 THEN Fail(elems.issues)
       ELSE Ok(Arr(elems.output))

\* refine(schema, check, message).safeParse(data)
refine_safeParse(node, data) ==
  LET result == safeParse(node.inner, data) IN
  IF Thrown(result) \/ ~result.success THEN result
  ELSE LET r == ApplyPred(node.check, result.data) IN
       IF r = "throw" THEN Throw("boom")
       ELSE IF r = "false" THEN Fail(<<Issue(node.message)>>)
       ELSE result

\* transform(schema, fn).safeParse(data)
transform_safeParse(node, data) ==
  LET result == safeParse(node.inner, data) IN
  IF Thrown(result) \/ ~result.success THEN result
  ELSE LET t == ApplyFn(node.fn, result.data) IN
       IF Thrown(t) THEN Fail(<<Issue(t.thrown)>>) ELSE t

\* a default wrapper that validates the default with the inner node
withDefault_safeParse_validating(node, data) ==
  safeParse(node.inner, IF data = Undef THEN node.defaultValue ELSE data)

\* withCatch(schema, catchValue).safeParse(data)
withCatch_safeParse(node, data) ==
  LET result == safeParse(node.inner, data) IN
  IF Thrown(result) \/ result.success THEN result ELSE Ok(node.catchValue)

\* withDefault(schema, defaultValue).safeParse(data)
withDefault_safeParse(node, data) ==
  IF data = Undef THEN Ok(node.defaultValue) ELSE safeParse(node.inner, data)

\* the checks loop of zen-mini createSchema(...).safeParse from check i on:
\* the first check that returns an issue ends it
RECURSIVE MiniChecks(_, _, _)
MiniChecks(checks, i, data) ==
  IF i > Len(checks) THEN Ok(data)
  ELSE LET r == ApplyPred(checks[i].check, data) IN
       IF r = "throw" THEN Throw("boom")
       ELSE IF r = "false" THEN Fail(<<Issue(checks[i].message)>>)
       ELSE MiniChecks(checks, i + 1, data)

\* zen-mini createSchema(validate, checks).safeParse(data)
miniSchema_safeParse(node, data) ==
  IF ~fastCheck(node.typeName, data)
  THEN Fail(<<Issue(ExpectedMessage(node.typeName))>>)
  ELSE MiniChecks(node._checks, 1, data)

\* a composite output under construction: unset while it is still null
NoOutput(empty) == [set |-> FALSE, val |-> empty]
Output(v) == [set |-> TRUE, val |-> v]

\* output = {} followed by output[key] = input[key] for the first n fields
RECURSIVE CopyFields(_, _, _)
CopyFields(shape, input, n) ==
  IF n = 0 THEN Obj(<<>>)
  ELSE ObjSet(CopyFields(shape, input, n - 1), shape[n].key, ObjGet(input, shape[n].key))

\* the field loop of the zen-full object safeParse from field i on; the
\* output object is created only once a field's data differs from its input
ZenObjectFields(shape, input, i, issues, out) ==
  IF i > Len(shape) THEN [issues |-> issues, out |-> out]
  ELSE LET key == shape[i].key
           value == ObjGet(input, key)
           result == safeParse(shape[i].schema, value)
       IN IF Thrown(result) THEN result
          ELSE IF result.success
          THEN IF ~ReturnsInput(shape[i].schema, value) \/ out.set
               THEN LET base == IF out.set THEN out.val ELSE CopyFields(shape, input, i - 1)
                    IN ZenObjectFields(shape, input, i + 1, issues,
                         Output(ObjSet(base, key, result.data)))
               ELSE ZenObjectFields(shape, input, i + 1, issues, out)
          ELSE ZenObjectFields(shape, input, i + 1,
                 issues \o Prefix(Key(key), result.issues), out)

\* the passthrough loop of the zen-full object safeParse over Object.keys(input)
RECURSIVE ZenPassthrough(_, _, _, _)
ZenPassthrough(shapeKeys, input, i, out) ==
  IF i > Len(input.f) THEN out
  ELSE LET key == input.f[i].key IN
       IF key \in shapeKeys THEN ZenPassthrough(shapeKeys, input, i + 1, out)
       ELSE IF ~out.set THEN ZenPassthrough(shapeKeys, input, i + 1, Output(input))
       ELSE ZenPassthrough(shapeKeys, input, i + 1,
              Output(ObjSet(out.val, key, input.f[i].val)))

\* zen-full createObjectSchema(shape, options).safeParse(data)
zenObject_safeParse(node, data) ==
  IF typeof(data) # "object" \/ data = Null \/ isArray(data)
  THEN Fail(<<Issue("Expected object")>>)
  ELSE LET shapeKeys == {node.shape[i].key : i \in 1..Len(node.shape)}
           fields == ZenObjectFields(node.shape, data, 1, <<>>, NoOutput(Obj(<<>>)))
       IN IF Thrown(fields) THEN fields
          ELSE LET issues == IF node.strict
                             THEN StrictIssues(shapeKeys, ObjectKeys(data), 1, fields.issues)
                             ELSE fields.issues
                   out == IF node.passthrough
                          THEN ZenPassthrough(shapeKeys, data, 1, fields.out)
                          ELSE fields.out
               IN IF Len(issues) > 0 THEN Fail(issues)
                  ELSE Ok(IF out.set THEN out.val ELSE data)

\* `Expected ${items.length} elements, received ${data.length}`
TupleLengthMessage(n, m) ==
  "Expected " \o ToString(n) \o " elements, received " \o ToString(m)

\* the item loop of createTupleSchema(items).safeParse from item i (1-based) on
TupleItems(items, data, i, issues, out) ==
  IF i > Len(items) THEN [issues |-> issues, out |-> out]
  ELSE LET result == safeParse(items[i], data.e[i]) IN
       IF Thrown(result) THEN result
       ELSE IF result.success
       THEN IF ~ReturnsInput(items[i], data.e[i]) \/ out.set
            THEN LET base == IF out.set THEN out.val ELSE SubSeq(data.e, 1, i - 1)
                 IN TupleItems(items, data, i + 1, issues, Output(Append(base, result.data)))
            ELSE TupleItems(items, data, i + 1, issues, out)
       ELSE TupleItems(items, data, i + 1,
              issues \o Prefix(Idx(i - 1), result.issues), out)

\* createTupleSchema(items).safeParse(data)
tuple_safeParse(node, data) ==
  IF ~isArray(data) THEN Fail(<<Issue("Expected array")>>)
  ELSE IF Len(data.e) # Len(node.items)
  THEN Fail(<<Issue(TupleLengthMessage(Len(node.items), Len(data.e)))>>)
  ELSE LET items == TupleItems(node.items, data, 1, <<>>, NoOutput(<<>>)) IN
       IF Thrown(items) THEN items
       ELSE IF Len(items.issues) > 0 THEN Fail(items.issues)
       ELSE Ok(IF items.out.set THEN Arr(items.out.val) ELSE data)

\* the loop of record(valueSchema).safeParse over Object.entries(input)
RecordEntries(valueSchema, input, i, issues, output) ==
  IF i > Len(input.f) THEN [issues |-> issues, output |-> output]
  ELSE LET result == safeParse(valueSchema, input.f[i].val) IN
       IF Thrown(result) THEN result
       ELSE IF result.success
       THEN RecordEntries(valueSchema, input, i + 1, issues,
              ObjSet(output, input.f[i].key, result.data))
       ELSE RecordEntries(valueSchema, input, i + 1,
              issues \o Prefix(Key(input.f[i].key), result.issues), output)

\* record(valueSchema).safeParse(data)
record_safeParse(node, data) ==
  IF typeof(data) # "object" \/ data = Null \/ isArray(data)
  THEN Fail(<<Issue("Expected object")>>)
  ELSE LET entries == RecordEntries(node.value, data, 1, <<>>, Obj(<<>>)) IN
       IF Thrown(entries) THEN entries
       ELSE IF Len(entries.issues) > 0 THEN Fail(entries.issues)
       ELSE Ok(entries.output)

\* a union that returns the result of the last option that succeeds
UnionOptions_lastMatch(options, i, data) ==
  LET matching == {j \in i..Len(options) : Succeeded(safeParse(options[j], data))} IN
  IF matching = {} THEN Fail(<<Issue("No matching type in union")>>)
  ELSE safeParse(options[CHOOSE j \in matching : \A k \in matching : k <= j], data)

\* the loop of union(options).safeParse from option i on
UnionOptions(options, i, data) ==
  IF i > Len(options) THEN Fail(<<Issue("No matching type in union")>>)
  ELSE LET result == safeParse(options[i], data) IN
       IF Thrown(result) \/ result.success THEN result
       ELSE UnionOptions(options, i + 1, data)

\* union(options).safeParse(data)
union_safeParse(node, data) == UnionOptions(node.options, 1, data)

\* the own enumerable entries { ...v } copies
SpreadEntries(v) ==
  CASE v.k = "object" -> v.f
    [] v.k = "array" -> [i \in 1..Len(v.e) |-> Entry(ToString(i - 1), v.e[i])]
    [] OTHER -> <<>>

\* Object.assign onto o of the entries from entry i on
RECURSIVE AssignEntries(_, _, _)
AssignEntries(o, entries, i) ==
  IF i > Len(entries) THEN o
  ELSE AssignEntries(ObjSet(o, entries[i].key, entries[i].val), entries, i + 1)

\* { ...a, ...b }
Spread(a, b) == AssignEntries(AssignEntries(Obj(<<>>), SpreadEntries(a), 1), SpreadEntries(b), 1)

\* intersection(left, right).safeParse(data)
intersection_safeParse(node, data) ==
  LET leftResult == safeParse(node.left, data) IN
  IF Thrown(leftResult) \/ ~leftResult.success THEN leftResult
  ELSE LET rightResult == safeParse(node.right, data) IN
       IF Thrown(rightResult) \/ ~rightResult.success THEN rightResult
       ELSE IF typeof(leftResult.data) = "object" /\ typeof(rightResult.data) = "object"
       THEN Ok(Spread(leftResult.data, rightResult.data))
       ELSE Ok(leftResult.data)

\* an optional that hands every input, undefined too, to the inner node
optional_safeParse_delegating(node, data) == safeParse(node.inner, data)

\* optional(schema).safeParse(data)
optional_safeParse(node, data) ==
  IF data = Undef THEN Ok(Undef) ELSE safeParse(node.inner, data)

\* result.data === data for a successful safeParse(node, data): a primitive
\* equals itself unless it is NaN; an object or array is the input only when
\* the node hands its input back instead of building a new value
ReturnsInput(node, data) ==
  LET result == safeParse(node, data) IN
  IF result.data.k \notin {"object", "array"}
  THEN result.data = data /\ data # NaN
  ELSE /\ data.k = result.data.k
       /\ CASE node.kind \in {"schema", "mini"} ->
                 IF "transform" \in DOMAIN node THEN node.transform = "none" ELSE TRUE
            [] node.kind = "zobject" ->
                 LET shapeKeys == {node.shape[i].key : i \in 1..Len(node.shape)}
                     fields == ZenObjectFields(node.shape, data, 1, <<>>, NoOutput(Obj(<<>>)))
                 IN ~(IF node.passthrough
                      THEN ZenPassthrough(shapeKeys, data, 1, fields.out)
                      ELSE fields.out).set
            [] node.kind = "tuple" ->
                 ~TupleItems(node.items, data, 1, <<>>, NoOutput(<<>>)).out.set
            [] node.kind \in {"refine", "optional", "default"} -> ReturnsInput(node.inner, data)
            [] node.kind = "lazy" -> ReturnsInput(Getter(node.getter), data)
            [] node.kind = "union" ->
                 LET first == CHOOSE i \in 1..Len(node.options) :
                                /\ Succeeded(safeParse(node.options[i], data))
                                /\ \A j \in 1..(i - 1) : ~Succeeded(safeParse(node.options[j], data))
                 IN ReturnsInput(node.options[first], data)
            [] node.kind = "intersection" ->
                 /\ typeof(safeParse(node.right, data).data) # "object"
                 /\ ReturnsInput(node.left, data)
            [] OTHER -> FALSE

safeParse(node, data) ==
  CASE node.kind = "schema" -> createSchema_safeParse(node, data)
    [] node.kind = "object" -> createObjectSchema_safeParse(node, data)
    [] node.kind = "array" -> array_safeParse(node, data)
    [] node.kind = "refine" -> refine_safeParse(node, data)
    [] node.kind = "transform" -> transform_safeParse(node, data)
    [] node.kind = "default" -> withDefault_safeParse(node, data)
    [] node.kind = "catch" -> withCatch_safeParse(node, data)
    [] node.kind = "lazy" -> safeParse(Getter(node.getter), data)
    [] node.kind = "mini" -> miniSchema_safeParse(node, data)
    [] node.kind = "zobject" -> zenObject_safeParse(node, data)
    [] node.kind = "tuple" -> tuple_safeParse(node, data)
    [] node.kind = "record" -> record_safeParse(node, data)
    [] node.kind = "union" -> union_safeParse(node, data)
    [] node.kind = "intersection" -> intersection_safeParse(node, data)
    [] node.kind = "optional" -> optional_safeParse(node, data)

\* ------------------------------------------------------------------
\* The builder methods of an object node.  Each takes the node it is called
\* on and yields the node createObjectSchema returns for the new shape and
\* options.
\* ------------------------------------------------------------------
\* the wrapper partial() puts around every field: undefined short-circuits
PartialShape(shape) ==
  [i \in 1..Len(shape) |-> Field(shape[i].key, optional(shape[i].schema))]

\* pickedShape: the keys asked for that the shape has, in the order asked
RECURSIVE PickedShape(_, _, _)
PickedShape(shape, keys, i) ==
  IF i > Len(keys) THEN <<>>
  ELSE LET rest == PickedShape(shape, keys, i + 1)
           at == {j \in 1..Len(shape) : shape[j].key = keys[i]}
       IN IF at = {} \/ \E k \in 1..(i - 1) : keys[k] = keys[i]
          THEN rest
          ELSE <<shape[CHOOSE j \in at : TRUE]>> \o rest

\* omittedShape: the fields whose key is not omitted, in shape order
OmittedShape(shape, keys) ==
  SelectSeq(shape, LAMBDA f : \A i \in 1..Len(keys) : keys[i] # f.key)

\* { ...shape, ...extension } from entry i of the extension on
RECURSIVE ShapeAssign(_, _, _)
ShapeAssign(shape, extension, i) ==
  IF i > Len(extension) THEN shape
  ELSE LET f == extension[i]
           next == IF \E j \in 1..Len(shape) : shape[j].key = f.key
                   THEN [j \in 1..Len(shape) |-> IF shape[j].key = f.key THEN f ELSE shape[j]]
                   ELSE Append(shape, f)
       IN ShapeAssign(next, extension, i + 1)

object_partial(node) == [node EXCEPT !.shape = PartialShape(node.shape)]
object_pick(node, keys) == [node EXCEPT !.shape = PickedShape(node.shape, keys, 1)]
object_omit(node, keys) == [node EXCEPT !.shape = OmittedShape(node.shape, keys)]
object_extend(node, extension) == [node EXCEPT !.shape = ShapeAssign(node.shape, extension, 1)]
object_merge(node, other) == [node EXCEPT !.shape = ShapeAssign(node.shape, other.shape, 1)]
\* createObjectSchema(shape, { ...options, passthrough: true })
object_passthrough(node) == [node EXCEPT !.passthrough = TRUE]
\* createObjectSchema(shape, { ...options, strict: true })
object_strict(node) == [node EXCEPT !.strict = TRUE]

\* ------------------------------------------------------------------
\* The schemas and inputs under test
\* ------------------------------------------------------------------
string == createSchema("ZodString", "string", <<>>, "none")
number == createSchema("ZodNumber", "number", <<>>, "none")
\* string().min(3)
stringMin3 ==
  createSchema("ZodString", "string",
    <<Check("min", Pred("minLength", 3), "Too short")>>, "none")
\* a check named like a built-in pattern that carries its own predicate
stringEmailStub ==
  createSchema("ZodString", "string",
    <<Check("email", Pred("always", 0), "Invalid email")>>, "none")
\* string().email()
stringEmail ==
  createSchema("ZodString", "string",
    <<Check("email", Pred("emailRegex", 0), "Invalid email")>>, "none")
\* number().int().positive()
numberIntPositive ==
  createSchema("ZodNumber", "number",
    <<Check("int", Pred("isInteger", 0), "Must be an integer"),
      Check("positive", Pred("positive", 0), "Must be positive")>>, "none")
\* a node that carries no _type and a check jit.ts has no code for
untyped ==
  createSchema("ZodString", "none",
    <<Check("custom", Pred("minLength", 3), "Too short")>>, "none")
\* a node that carries no _type and a check named nonempty
untypedNonempty ==
  createSchema("ZodString", "none",
    <<Check("nonempty", Pred("minLength", 1), "Must not be empty")>>, "none")
stringLength == createSchema("ZodString", "string", <<>>, "length")
userShape == <<Field("a", string), Field("b", number)>>
userObject == createObjectSchema(userShape, FALSE, FALSE)
\* a shape key that holds a double quote
quoteShape == <<Field("q\"", string)>>
quoteObject == createObjectSchema(quoteShape, FALSE, FALSE)
stringArray == array(string)
nestedArray == array(array(string))
refineThrows == refine(string, Pred("throw", 0), "Validation failed")
refineMin3 == refine(string, Pred("minLength", 3), "Validation failed")
transformThrows == transform(string, "throw")
stringDefault == withDefault(string, Str(chars_abc))
\* const tree = array(lazy(() => tree))
tree == array(lazy("tree"))

Getter(name) == CASE name = "tree" -> tree

Schemas ==
  {string, stringMin3, stringEmailStub, stringEmail, numberIntPositive, untyped,
   untypedNonempty, stringLength, userObject, quoteObject, stringArray, nestedArray,
   refineThrows, refineMin3, transformThrows, stringDefault, tree}

Inputs ==
  {Undef, Null, Num(6), Num(3), Num(-2), Infinity,
   Str(<<>>), Str(chars_a_b), Str(chars_invalid), Str(chars_email),
   Arr(<<>>), Arr(<<Str(chars_a_b), Num(6), Null>>),
   Arr(<<Arr(<<>>), Arr(<<>>)>>), Arr(<<Arr(<<Str(chars_a_b)>>)>>),
   Arr(<<Arr(<<Num(6)>>)>>),
   Obj(<<Entry("a", Str(chars_a_b)), Entry("b", Num(6))>>),
   Obj(<<Entry("b", Str(chars_a_b)), Entry("a", Num(6))>>),
   Obj(<<Entry("a", Str(chars_a_b)), Entry("b", Num(6)), Entry("c", Bool(TRUE))>>),
   Obj(<<Entry("q\"", Num(6))>>)}

\* ------------------------------------------------------------------
\* The composite and modifier nodes under test
\* ------------------------------------------------------------------
\* zen-mini number().check(int(), positive())
miniIntPositive ==
  miniSchema("ZodNumber",
    <<Check("int", Pred("isInteger", 0), "Must be an integer"),
      Check("positive", Pred("positive", 0), "Must be positive")>>)
\* a node whose validation throws whenever it is invoked
alwaysThrows ==
  createSchema("ZodAny", "none", <<Check("custom", Pred("throw", 0), "never")>>, "none")
\* object({ n: number().int().positive() })
scoreObject == createObjectSchema(<<Field("n", numberIntPositive)>>, FALSE, FALSE)
zenUser == zenObject(userShape, FALSE, FALSE)
\* object({ users: array(object({ email: string().email() })) })
zenNested ==
  zenObject(<<Field("users", array(zenObject(<<Field("email", stringEmail)>>, FALSE, FALSE)))>>,
            FALSE, FALSE)
stringNumberTuple == tuple(<<string, number>>)
numberRecord == record(number)
\* both alternatives accept a string; the first maps it to its length
lengthOrString == union(<<stringLength, string>>)
stringOrThrows == union(<<string, alwaysThrows>>)
numberOrString == union(<<number, string>>)
\* both operands yield a record with the key a
zenA == zenObject(<<Field("a", string)>>, FALSE, FALSE)
zenALength == zenObject(<<Field("a", stringLength)>>, FALSE, FALSE)
recordIntersection == intersection(zenA, zenALength)
arrayIntersection == intersection(stringArray, stringArray)
stringIntersection == intersection(string, stringMin3)
\* record(tuple([string(), number()]))
recordOfTuples == record(stringNumberTuple)
optionalString == optional(string)
\* defaults the inner node would reject, or throw on
min3Default == withDefault(stringMin3, Str(chars_a_b))
throwsDefault == withDefault(alwaysThrows, Str(chars_a_b))
min3Catch == withCatch(stringMin3, Str(chars_a_b))
\* createSchema('ZodString', isString, [], fn) with an fn that throws
stringTransformThrows == createSchema("ZodString", "string", <<>>, "throw")
optionalThrows == optional(alwaysThrows)

\* the extension { c: boolean() } given to extend()
extensionShape == <<Field("c", createSchema("ZodBoolean", "boolean", <<>>, "none"))>>

SchemaNodes ==
  {numberIntPositive, miniIntPositive, scoreObject, userObject, zenUser, zenNested,
   stringArray, stringNumberTuple, numberRecord, lengthOrString, stringOrThrows,
   recordOfTuples, numberOrString, recordIntersection, arrayIntersection, stringIntersection,
   optionalString, optionalThrows, stringDefault, min3Default, throwsDefault,
   min3Catch, stringLength, transformThrows, stringTransformThrows}

SchemaInputs ==
  {Undef, Null, Num(6), Num(3), Num(-3), Str(chars_a_b), Str(chars_abc),
   Arr(<<Str(chars_a_b)>>), Arr(<<Str(chars_a_b), Num(6)>>),
   Arr(<<Num(6), Str(chars_a_b)>>), Arr(<<Num(6), Null, Str(chars_a_b)>>),
   Obj(<<Entry("a", Str(chars_a_b))>>),
   Obj(<<Entry("a", Str(chars_a_b)), Entry("b", Num(6))>>),
   Obj(<<Entry("b", Str(chars_a_b)), Entry("a", Num(6))>>),
   Obj(<<Entry("a", Str(chars_a_b)), Entry("b", Num(6)), Entry("c", Bool(TRUE))>>),
   Obj(<<Entry("a", Str(chars_a_b)), Entry("c", Num(6)), Entry("d", Null)>>),
   Obj(<<Entry("n", Num(-3))>>), Obj(<<Entry("n", Num(6))>>),
   Obj(<<Entry("a", Arr(<<Str(chars_a_b), Str(chars_a_b)>>))>>),
   Obj(<<Entry("users", Arr(<<Obj(<<Entry("email", Str(chars_email))>>),
                              Obj(<<Entry("email", Str(chars_invalid))>>)>>))>>)}

\* ------------------------------------------------------------------
\* jit.ts: compile() and compileChecks()
\* ------------------------------------------------------------------
\* the check names PATTERN_VALIDATORS has an entry for
PATTERN_VALIDATORS == {"email", "uuid", "ipv4", "url", "date", "hex", "ulid"}

\* getOptimizedValidator(checkName) is not null
getOptimizedValidator(checkName) == checkName \in PATTERN_VALIDATORS

\* PATTERN_VALIDATORS[name](v) for the entries the schemas under test name:
\* "true", "false" or "throw" (a value without the string methods)
ApplyOptimized(name, v) ==
  CASE name = "email" /\ v.k = "string" ->
         LET at == indexOf(v.s, "@")
             dot == lastIndexOf(v.s, ".")
         IN IF at < 1 THEN "false"
            ELSE IF dot > at + 1 /\ dot < Len(v.s) - 1 /\ ~includes(v.s, " ")
                 THEN "true" ELSE "false"
    [] name = "url" /\ v.k = "string" ->
         IF \/ startsWith(v.s, <<"h", "t", "t", "p", ":", "/", "/">>)
            \/ startsWith(v.s, <<"h", "t", "t", "p", "s", ":", "/", "/">>)
         THEN "true" ELSE "false"
    [] name \in {"email", "url"} /\ v.k # "string" -> "throw"

\* the function compileChecks(checks) returns, applied to value from check
\* i on: null (Pass), the first failing check's { message } or a Throw
RECURSIVE compileChecks(_, _, _)
compileChecks(checks, i, value) ==
  IF i > Len(checks) THEN Pass
  ELSE LET r == IF getOptimizedValidator(checks[i].name)
                THEN ApplyOptimized(checks[i].name, value)
                ELSE ApplyPred(checks[i].check, value)
       IN IF r = "throw" THEN Throw("TypeError")
          ELSE IF r = "false" THEN Fail(<<Issue(checks[i].message)>>)
          ELSE compileChecks(checks, i + 1, value)

\* compile(schema).validate(data)
compile_validate(schema, data) ==
  LET result == safeParse(schema, data) IN
  IF Thrown(result) \/ ~result.success THEN result
  ELSE LET error == compileChecks(schema._checks, 1, result.data) IN
       IF error = Pass THEN result ELSE error

\* ------------------------------------------------------------------
\* jit.ts: extractSchemaInfo
\* ------------------------------------------------------------------
\* (schema._checks ?? []).map((c) => ({ name: c.name, args: [] }))
InfoChecks(checks) == [i \in 1..Len(checks) |-> [name |-> checks[i].name, args |-> <<>>]]

StringCheckNames ==
  {"min", "max", "length", "email", "url", "uuid", "regex", "startsWith", "endsWith"}
NumberCheckNames == {"int", "positive", "negative", "finite", "multipleOf"}

\* the type the first check with a telling name infers, "unknown" if none does
RECURSIVE InferType(_, _)
InferType(checks, i) ==
  IF i > Len(checks) THEN "unknown"
  ELSE IF checks[i].name \in StringCheckNames THEN "string"
  ELSE IF checks[i].name \in NumberCheckNames THEN "number"
  ELSE InferType(checks, i + 1)

TypeTag(schema) == IF "_type" \in DOMAIN schema THEN schema._type ELSE "none"

RECURSIVE extractSchemaInfo(_)
extractSchemaInfo(schema) ==
  LET checks == InfoChecks(schema._checks)
      typeName == TypeTag(schema)
  IN IF "shape" \in DOMAIN schema \/ typeName = "object"
     THEN [type |-> "object", checks |-> checks,
           shape |-> IF "shape" \in DOMAIN schema
                     THEN [i \in 1..Len(schema.shape) |->
                            [key |-> schema.shape[i].key,
                             info |-> extractSchemaInfo(schema.shape[i].schema)]]
                     ELSE <<>>]
     ELSE IF "element" \in DOMAIN schema
     THEN [type |-> "array", checks |-> checks,
           element |-> extractSchemaInfo(schema.element)]
     ELSE IF typeName = "array" THEN [type |-> "array", checks |-> checks]
     ELSE IF typeName \in {"string", "number", "boolean"}
     THEN [type |-> typeName, checks |-> checks]
     ELSE [type |-> InferType(checks, 1), checks |-> checks]

\* check.args?.[0] ?? dflt
Arg0(check, dflt) == IF Len(check.args) >= 1 THEN check.args[1] ELSE dflt

\* a bound no length exceeds stands for Infinity in generated comparisons
INFINITY == 1000000

\* ------------------------------------------------------------------
\* jit.ts (first version): generateCheckCode, generateValidatorCode
\* ------------------------------------------------------------------
\* the expression generateCheckCode returns for a check, "none" for null
generateCheckCode(check) ==
  CASE check.name \in {"email", "uuid", "url", "ipv4", "datetime", "date", "hex"} ->
         [test |-> check.name, n |-> 0]
    [] check.name = "min" -> [test |-> "lengthGE", n |-> Arg0(check, 0)]
    [] check.name = "max" -> [test |-> "lengthLE", n |-> Arg0(check, INFINITY)]
    [] check.name = "length" -> [test |-> "lengthEQ", n |-> Arg0(check, 0)]
    [] check.name = "nonempty" -> [test |-> "lengthGT", n |-> 0]
    [] check.name = "int" -> [test |-> "isInteger", n |-> 0]
    [] check.name = "positive" -> [test |-> "GT0", n |-> 0]
    [] check.name = "negative" -> [test |-> "LT0", n |-> 0]
    [] check.name = "finite" -> [test |-> "isFinite", n |-> 0]
    [] OTHER -> [test |-> "none", n |-> 0]

\* x > 0 / x < 0 on a value (comparisons with a non-number are false here)
GT0(v) == v.k = "number" /\ ((v.sp = "finite" /\ v.n > 0) \/ v.sp = "Infinity")
LT0(v) == v.k = "number" /\ v.sp = "finite" /\ v.n < 0

\* evaluating a generated check expression on the value of varName:
\* "true", "false" or "throw"
EvalCheckCode(code, v) ==
  CASE code.test \in {"lengthGE", "lengthLE", "lengthEQ", "lengthGT"} ->
         LET len == JsLength(v) IN
         IF len = -2 THEN "throw"
         ELSE IF len = -1 THEN "false"
         ELSE IF \/ code.test = "lengthGE" /\ len >= code.n
                 \/ code.test = "lengthLE" /\ len <= code.n
                 \/ code.test = "lengthEQ" /\ len = code.n
                 \/ code.test = "lengthGT" /\ len > code.n
              THEN "true" ELSE "false"
    [] code.test = "isInteger" ->
         IF v.k = "number" /\ v.sp = "finite" /\ v.n % 2 = 0 THEN "true" ELSE "false"
    [] code.test = "isFinite" ->
         IF v.k = "number" /\ v.sp = "finite" THEN "true" ELSE "false"
    [] code.test = "GT0" -> IF GT0(v) THEN "true" ELSE "false"
    [] code.test = "LT0" -> IF LT0(v) THEN "true" ELSE "false"
    [] code.test = "email" /\ v.k = "string" ->
         IF EmailRegex(v.s) THEN "true" ELSE "false"

\* the type test the generated routine starts with fails on v
TypeCheckFails(type, v) ==
  CASE type = "string" -> typeof(v) # "string"
    [] type = "number" -> typeof(v) # "number" \/ v.sp = "NaN"
    [] type = "boolean" -> typeof(v) # "boolean"
    [] type = "object" -> typeof(v) # "object" \/ v = Null \/ isArray(v)
    [] type = "array" -> ~isArray(v)
    [] OTHER -> FALSE

ValidationFailed(name) == "Validation failed: " \o name

\* the generated check lines from check i on: Pass, a failure or a Throw
RECURSIVE RunCheckLines(_, _, _)
RunCheckLines(checks, i, v) ==
  IF i > Len(checks) THEN Pass
  ELSE LET code == generateCheckCode(checks[i]) IN
       IF code.test = "none" THEN RunCheckLines(checks, i + 1, v)
       ELSE LET r == EvalCheckCode(code, v) IN
            IF r = "throw" THEN Throw("TypeError")
            ELSE IF r = "false" THEN Fail(<<Issue(ValidationFailed(checks[i].name))>>)
            ELSE RunCheckLines(checks, i + 1, v)

\* issues.map(i => ({ ...i, path: ["key", ...(i.path || [])] }))
MapFieldPath(key, issues) ==
  [j \in 1..Len(issues) |-> IssueAt(issues[j].message, <<Key(key)>> \o PathOf(issues[j]))]

\* issues.map(i => ({ ...i, path: [i, ...(i.path || [])] })): inside the
\* arrow function i is the issue, not the loop index
MapElementPath(index, issues) ==
  [j \in 1..Len(issues) |-> IssueAt(issues[j].message, <<issues[j]>> \o PathOf(issues[j]))]

RECURSIVE generateValidatorCode(_, _, _)
RECURSIVE FieldBlocks(_, _, _, _)
RECURSIVE ElementLoop(_, _, _, _)

\* the field blocks of the generated routine from field i on
FieldBlocks(shape, i, base, v) ==
  IF i > Len(shape) THEN Pass
  ELSE LET fieldResult == generateValidatorCode(shape[i].info, base, ObjGet(v, shape[i].key)) IN
       IF fieldResult = Pass THEN FieldBlocks(shape, i + 1, base, v)
       ELSE IF Thrown(fieldResult) THEN fieldResult
       ELSE Fail(MapFieldPath(shape[i].key, fieldResult.issues))

\* the element loop of the generated routine from index i (0-based) on; the
\* body declares const elem, so a varName that itself reads elem (base =
\* "elem") is read before initialization
ElementLoop(element, i, base, v) ==
  IF i >= Len(v.e) THEN Pass
  ELSE IF base = "elem" THEN Throw("ReferenceError")
  ELSE LET elemResult == generateValidatorCode(element, "elem", v.e[i + 1]) IN
       IF elemResult = Pass THEN ElementLoop(element, i + 1, base, v)
       ELSE IF Thrown(elemResult) THEN elemResult
       ELSE Fail(MapElementPath(i, elemResult.issues))

\* running the code generateValidatorCode(info, varName) generates, where v
\* is the value of varName and base the variable varName starts with:
\* Pass (falls through), the failure it returns, or a Throw
generateValidatorCode(info, base, v) ==
  IF TypeCheckFails(info.type, v)
  THEN Fail(<<Issue("Expected " \o info.type)>>)
  ELSE LET c == RunCheckLines(info.checks, 1, v) IN
       IF c # Pass THEN c
       ELSE IF info.type = "object" /\ "shape" \in DOMAIN info
       THEN FieldBlocks(info.shape, 1, base, v)
       ELSE IF info.type = "array" /\ "element" \in DOMAIN info
       THEN ElementLoop(info.element, 0, base, v)
       ELSE Pass

\* a key that ends the string literal it is pasted into
BreaksLiteral(key) == key = "q\""

\* new Function(..., fullCode) throws a SyntaxError on the generated code
RECURSIVE SynthesisThrows(_)
SynthesisThrows(info) ==
  \/ /\ "shape" \in DOMAIN info
     /\ \E i \in 1..Len(info.shape) :
          BreaksLiteral(info.shape[i].key) \/ SynthesisThrows(info.shape[i].info)
  \/ /\ "element" \in DOMAIN info
     /\ SynthesisThrows(info.element)

\* the validator jit() builds from info (first version), called on d
JitRoutineV1(info, d) ==
  LET r == generateValidatorCode(info, "d", d) IN
  IF r = Pass THEN Ok(d) ELSE r

\* ------------------------------------------------------------------
\* jit.ts (second version): PRE_ERRORS, generateCheckCode,
\* generateValidatorCodeV2.  The generated routine is a list of
\* instructions over the function-scoped variables d, i and elem.
\* ------------------------------------------------------------------
PRE_ERRORS(name) ==
  CASE name = "string" -> Fail(<<Issue("Expected string")>>)
    [] name = "number" -> Fail(<<Issue("Expected number")>>)
    [] name = "boolean" -> Fail(<<Issue("Expected boolean")>>)
    [] name = "object" -> Fail(<<Issue("Expected object")>>)
    [] name = "array" -> Fail(<<Issue("Expected array")>>)
    [] name = "email" -> Fail(<<Issue("Invalid email")>>)
    [] name = "uuid" -> Fail(<<Issue("Invalid UUID")>>)
    [] name = "url" -> Fail(<<Issue("Invalid URL")>>)
    [] name = "int" -> Fail(<<Issue("Expected integer")>>)
    [] name = "positive" -> Fail(<<Issue("Expected positive number")>>)
    [] name = "negative" -> Fail(<<Issue("Expected negative number")>>)
    [] name = "min" -> Fail(<<Issue("Value too small")>>)
    [] name = "max" -> Fail(<<Issue("Value too large")>>)
    [] name = "nonempty" -> Fail(<<Issue("Expected non-empty")>>)

\* E: the PRE_ERRORS objects as they are now, by name.  They are created once
\* and every routine returns them by reference.
VARIABLE E

\* a varName: the variable it starts with and the keys indexed off it
Var(base, keys) == [base |-> base, keys |-> keys]

\* EMAIL_CHECK_CODE applied to the characters of a string
EMAIL_CHECK_CODE(cs) ==
  /\ Len(cs) >= 5
  /\ ~includes(cs, " ")
  /\ Cardinality({i \in 1..Len(cs) : cs[i] = "@"}) <= 1
  /\ indexOf(cs, "@") > 0
  /\ lastIndexOf(cs, ".") > indexOf(cs, "@") + 1
  /\ lastIndexOf(cs, ".") < Len(cs) - 1

\* the line generateCheckCode returns: the condition under which it returns
\* the pre-allocated error err; "none" for null
generateCheckCodeV2(check, var) ==
  CASE check.name \in {"email", "uuid", "url"} ->
         [op |-> "check", var |-> var, cond |-> "not_" \o check.name, n |-> 0,
          err |-> check.name]
    [] check.name = "min" ->
         [op |-> "check", var |-> var, cond |-> "lengthLT", n |-> Arg0(check, 0),
          err |-> "min"]
    [] check.name = "max" ->
         [op |-> "check", var |-> var, cond |-> "lengthGT", n |-> Arg0(check, INFINITY),
          err |-> "max"]
    [] check.name = "length" ->
         [op |-> "check", var |-> var, cond |-> "lengthNE", n |-> Arg0(check, 0),
          err |-> "min"]
    [] check.name = "nonempty" ->
         [op |-> "check", var |-> var, cond |-> "lengthEQ", n |-> 0, err |-> "nonempty"]
    [] check.name = "int" ->
         [op |-> "check", var |-> var, cond |-> "notInteger", n |-> 0, err |-> "int"]
    [] check.name = "positive" ->
         [op |-> "check", var |-> var, cond |-> "LE0", n |-> 0, err |-> "positive"]
    [] check.name = "negative" ->
         [op |-> "check", var |-> var, cond |-> "GE0", n |-> 0, err |-> "negative"]
    [] check.name = "finite" ->
         [op |-> "check", var |-> var, cond |-> "notFinite", n |-> 0, err |-> "number"]
    [] OTHER -> [op |-> "none"]

\* the check lines of info.checks from check i on
RECURSIVE CheckLinesV2(_, _, _)
CheckLinesV2(checks, i, var) ==
  IF i > Len(checks) THEN <<>>
  ELSE LET code == generateCheckCodeV2(checks[i], var) IN
       (IF code.op = "none" THEN <<>> ELSE <<code>>) \o CheckLinesV2(checks, i + 1, var)

RECURSIVE generateValidatorCodeV2(_, _)
RECURSIVE FieldLinesV2(_, _, _)

\* the inlined field code from field i on
FieldLinesV2(shape, i, var) ==
  IF i > Len(shape) THEN <<>>
  ELSE generateValidatorCodeV2(shape[i].info, Var(var.base, Append(var.keys, shape[i].key)))
         \o FieldLinesV2(shape, i + 1, var)

\* generateValidatorCodeV2(info, varName): the type test, the check lines,
\* the inlined fields, then the element loop
\*   for (var i = 0; i < varName.length; i++) { var elem = varName[i]; body }
\* as  init, test (leave by exit), elem, body, incr (back by back)
generateValidatorCodeV2(info, var) ==
  LET typeLine == IF info.type \in {"string", "number", "boolean", "object", "array"}
                  THEN <<[op |-> "type", var |-> var, type |-> info.type]>>
                  ELSE <<>>
      fields == IF info.type = "object" /\ "shape" \in DOMAIN info
                THEN FieldLinesV2(info.shape, 1, var)
                ELSE <<>>
      body == IF info.type = "array" /\ "element" \in DOMAIN info
              THEN generateValidatorCodeV2(info.element, Var("elem", <<>>))
              ELSE <<>>
      loop == IF info.type = "array" /\ "element" \in DOMAIN info
              THEN <<[op |-> "init"],
                     [op |-> "test", var |-> var, exit |-> Len(body) + 3],
                     [op |-> "elem", var |-> var]>>
                   \o body
                   \o <<[op |-> "incr", back |-> Len(body) + 2]>>
              ELSE <<>>
  IN typeLine \o CheckLinesV2(info.checks, 1, var) \o fields \o loop

\* fullCode: the generated lines followed by  return { success: true, data: d }
FullCodeV2(info) == generateValidatorCodeV2(info, Var("d", <<>>)) \o <<[op |-> "return"]>>

\* v[key] for a key of a shape: TypeError (Throw) off undefined and null
GetProp(v, key) ==
  IF Thrown(v) THEN v
  ELSE IF v.k \in {"undefined", "null"} THEN Throw("TypeError")
  ELSE IF v.k = "object" THEN ObjGet(v, key)
  ELSE Undef

RECURSIVE GetPath(_, _, _)
GetPath(v, keys, i) ==
  IF i > Len(keys) THEN v ELSE GetPath(GetProp(v, keys[i]), keys, i + 1)

\* the value of a varName in the frame st of a call on d
EvalVar(var, d, st) == GetPath(IF var.base = "d" THEN d ELSE st.elem, var.keys, 1)

\* v[i] for a number i
GetIndex(v, i) ==
  CASE v.k = "array" -> IF i < Len(v.e) THEN v.e[i + 1] ELSE Undef
    [] v.k = "string" -> IF i < Len(v.s) THEN Str(<<v.s[i + 1]>>) ELSE Undef
    [] OTHER -> Undef

\* the condition of a generated check line holds on v: "true", "false", "throw"
EvalCondV2(line, v) ==
  CASE line.cond \in {"lengthLT", "lengthGT", "lengthNE", "lengthEQ"} ->
         LET len == JsLength(v) IN
         IF len = -2 THEN "throw"
         ELSE IF len = -1 THEN (IF line.cond = "lengthNE" THEN "true" ELSE "false")
         ELSE IF \/ line.cond = "lengthLT" /\ len < line.n
                 \/ line.cond = "lengthGT" /\ len > line.n
                 \/ line.cond = "lengthNE" /\ len # line.n
                 \/ line.cond = "lengthEQ" /\ len = line.n
              THEN "true" ELSE "false"
    [] line.cond = "notInteger" ->
         IF v.k = "number" /\ v.sp = "finite" /\ v.n % 2 = 0 THEN "false" ELSE "true"
    [] line.cond = "notFinite" ->
         IF v.k = "number" /\ v.sp = "finite" THEN "false" ELSE "true"
    [] line.cond = "LE0" /\ v.k = "number" -> IF GT0(v) \/ v.sp = "NaN" THEN "false" ELSE "true"
    [] line.cond = "GE0" /\ v.k = "number" -> IF LT0(v) \/ v.sp = "NaN" THEN "false" ELSE "true"
    [] line.cond = "not_email" /\ v.k = "string" ->
         IF EMAIL_CHECK_CODE(v.s) THEN "false" ELSE "true"

\* one step of the generated routine: the frame after the instruction at
\* st.pc; result is set when the routine returns or throws
StepV2(code, d, st) ==
  LET line == code[st.pc]
      next == [st EXCEPT !.pc = st.pc + 1]
      Return(r) == [st EXCEPT !.result = r, !.pc = 0]
  IN CASE line.op = "return" -> Return(Ok(d))
       [] line.op = "type" ->
            LET v == EvalVar(line.var, d, st) IN
            IF Thrown(v) THEN Return(v)
            ELSE IF TypeCheckFails(line.type, v) THEN Return(E[line.type])
            ELSE next
       [] line.op = "check" ->
            LET v == EvalVar(line.var, d, st) IN
            IF Thrown(v) THEN Return(v)
            ELSE LET c == EvalCondV2(line, v) IN
                 IF c = "throw" THEN Return(Throw("TypeError"))
                 ELSE IF c = "true" THEN Return(E[line.err])
                 ELSE next
       [] line.op = "init" -> [next EXCEPT !.i = 0]
       [] line.op = "test" ->
            LET v == EvalVar(line.var, d, st) IN
            IF Thrown(v) THEN Return(v)
            ELSE IF JsLength(v) = -2 THEN Return(Throw("TypeError"))
            ELSE IF st.i < JsLength(v) THEN next
            ELSE [st EXCEPT !.pc = st.pc + line.exit]
       [] line.op = "elem" ->
            LET v == EvalVar(line.var, d, st) IN
            IF Thrown(v) THEN Return(v)
            ELSE IF v.k \in {"undefined", "null"} THEN Return(Throw("TypeError"))
            ELSE [next EXCEPT !.elem = GetIndex(v, st.i)]
       [] line.op = "incr" -> [st EXCEPT !.i = st.i + 1, !.pc = st.pc - line.back]

\* the frame a call starts in: var i and var elem are hoisted and undefined
NoResult == [pending |-> TRUE]
InitFrame == [pc |-> 1, i |-> 0, elem |-> Undef, result |-> NoResult]

\* ------------------------------------------------------------------
\* jit.ts: jitObject
\* ------------------------------------------------------------------
\* the SchemaInfo jitObject(shape) builds
jitObject_info(shape) ==
  [type |-> "object", checks |-> <<>>,
   shape |-> [i \in 1..Len(shape) |->
               [key |-> shape[i].key, info |-> extractSchemaInfo(shape[i].schema)]]]

\* the loop of the fallback validator of jitObject(shape) from field i on
RECURSIVE jitObject_fallbackLoop(_, _, _, _)
jitObject_fallbackLoop(shape, input, i, output) ==
  IF i > Len(shape) THEN Ok(output)
  ELSE LET result == safeParse(shape[i].schema, ObjGet(input, shape[i].key)) IN
       IF Thrown(result) THEN result
       ELSE IF ~result.success THEN Fail(Prefix(Key(shape[i].key), result.issues))
       ELSE jitObject_fallbackLoop(shape, input, i + 1, ObjSet(output, shape[i].key, result.data))

\* a fallback validator that reports the failed synthesis as a validation issue
jitObject_fallback_reporting(shape, data) ==
  Fail(<<Issue("JIT compilation failed")>>)

\* the fallback validator of jitObject(shape), called on data
jitObject_fallback(shape, data) ==
  IF typeof(data) # "object" \/ data = Null \/ isArray(data)
  THEN Fail(<<Issue("Expected object")>>)
  ELSE jitObject_fallbackLoop(shape, data, 1, Obj(<<>>))

\* ------------------------------------------------------------------
\* The program state
\* ------------------------------------------------------------------
\* the node instances of the schema under test
Nodes == {1}

VARIABLES
  schema,          \* the schema description the node instances were built from
  jitVersion,      \* which jit.ts is loaded: 1 (IIFE per field) or 2 (inlined)
  jitAvailable,    \* new Function is allowed (no CSP)
  jitCache,        \* jitCache: node -> validator id, 0 when absent
  validatorCache,  \* validatorCache: node -> validator id, 0 when absent
  validators,      \* the validator function objects created so far, by id
  returned,        \* the compile()/jit()/jitObject() request just served, if any
  call,            \* the validator or safeParse call in progress or just finished
  derived,         \* the nodes builder calls on the schema have returned, in order
  built            \* the builder call just served, if any

\* the registry createRegistry() returned: its Map and its WeakMap
VARIABLE globalRegistry

vars == <<schema, jitVersion, jitAvailable, jitCache, validatorCache, validators,
          returned, call, derived, built, E, globalRegistry>>

\* the schema objects that get registered, and the names they are given
RegistrySchemas == {"userSchema", "postSchema", "draftSchema"}
RegistryNames == {"User", "Post"}

\* createRegistry(): an empty Map (its entries in insertion order) and an
\* empty WeakMap ("undefined" where a schema has no entry)
createRegistry ==
  [schemas |-> <<>>, nameMap |-> [s \in RegistrySchemas |-> "undefined"]]

Idle == [state |-> "idle"]
NoRequest == [op |-> "none", node |-> 0, id |-> 0, hit |-> FALSE]
NoBuild == [op |-> "none", from |-> 0, to |-> 0]

\* the keys of PRE_ERRORS
ErrorNames ==
  {"string", "number", "boolean", "object", "array", "email", "uuid", "url", "int",
   "positive", "negative", "min", "max", "nonempty"}

Init ==
  /\ schema \in Schemas
  /\ jitVersion \in {1, 2}
  /\ jitAvailable \in BOOLEAN
  /\ jitCache = [n \in Nodes |-> 0]
  /\ validatorCache = [n \in Nodes |-> 0]
  /\ validators = <<>>
  /\ returned = NoRequest
  /\ call = Idle
  /\ derived = <<>>
  /\ built = NoBuild
  /\ E = [name \in ErrorNames |-> PRE_ERRORS(name)]
  /\ globalRegistry = createRegistry

\* single-threaded: nothing else runs while a routine is executing
Quiet == call.state # "running"

\* isJITAvailable()
isJITAvailable == jitAvailable

NewId == Len(validators) + 1

\* compile(schema) on node n
compile(n) ==
  /\ Quiet
  /\ IF validatorCache[n] # 0
     THEN /\ returned' = [op |-> "compile", node |-> n, id |-> validatorCache[n], hit |-> TRUE]
          /\ UNCHANGED <<validatorCache, validators>>
     ELSE /\ Len(validators) < MaxValidators
          /\ validators' = Append(validators, [fn |-> "compile", node |-> n])
          /\ validatorCache' = [validatorCache EXCEPT ![n] = NewId]
          /\ returned' = [op |-> "compile", node |-> n, id |-> NewId, hit |-> FALSE]
  /\ call' = Idle
  /\ UNCHANGED <<schema, E, globalRegistry, derived, built, jitVersion, jitAvailable, jitCache>>

\* a jitCache.get(schema) that never finds the entry
jitCache_miss(n) == 0

\* jitCache.get(schema) for node n: the cached validator id, 0 when undefined
jitCache_get(n) == jitCache[n]

\* jit(schema) on node n
jit(n) ==
  /\ Quiet
  /\ IF jitCache_get(n) # 0
     THEN /\ returned' = [op |-> "jit", node |-> n, id |-> jitCache_get(n), hit |-> TRUE]
          /\ UNCHANGED <<jitCache, validators>>
     ELSE /\ Len(validators) < MaxValidators
          /\ returned' = [op |-> "jit", node |-> n, id |-> NewId, hit |-> FALSE]
          /\ IF ~isJITAvailable \/ SynthesisThrows(extractSchemaInfo(schema))
             THEN /\ validators' = Append(validators, [fn |-> "fallback", node |-> n])
                  /\ UNCHANGED jitCache
             ELSE /\ validators' = Append(validators, [fn |-> "jit", node |-> n])
                  /\ jitCache' = [jitCache EXCEPT ![n] = NewId]
  /\ call' = Idle
  /\ UNCHANGED <<schema, E, globalRegistry, derived, built, jitVersion, jitAvailable, validatorCache>>

\* jitObject(shape) with the shape of node n
jitObject(n) ==
  /\ Quiet
  /\ schema.kind = "object"
  /\ Len(validators) < MaxValidators
  /\ returned' = [op |-> "jitObject", node |-> n, id |-> NewId, hit |-> FALSE]
  /\ IF ~isJITAvailable \/ SynthesisThrows(jitObject_info(schema.shape))
     THEN validators' = Append(validators, [fn |-> "jitObjectFallback", node |-> n])
     ELSE validators' = Append(validators, [fn |-> "jitObject", node |-> n])
  /\ call' = Idle
  /\ UNCHANGED <<schema, E, globalRegistry, derived, built, jitVersion, jitAvailable, jitCache, validatorCache>>

\* the SchemaInfo a compiled validator was generated from
InfoOf(v) ==
  IF v.fn = "jitObject" THEN jitObject_info(schema.shape) ELSE extractSchemaInfo(schema)

Done(id, fn, data, result) ==
  [state |-> "done", id |-> id, fn |-> fn, input |-> data, result |-> result]

\* calling validator id on data: the wrappers around safeParse and the
\* first-version routine finish at once, the second-version routine starts
\* at its first instruction
Call(id, data) ==
  /\ Quiet
  /\ id \in 1..Len(validators)
  /\ LET v == validators[id] IN
     call' =
       CASE v.fn = "compile" -> Done(id, v.fn, data, compile_validate(schema, data))
         [] v.fn = "fallback" -> Done(id, v.fn, data, safeParse(schema, data))
         [] v.fn = "jitObjectFallback" ->
              Done(id, v.fn, data, jitObject_fallback(schema.shape, data))
         [] v.fn \in {"jit", "jitObject"} /\ jitVersion = 1 ->
              Done(id, v.fn, data, JitRoutineV1(InfoOf(v), data))
         [] v.fn \in {"jit", "jitObject"} /\ jitVersion = 2 ->
              [state |-> "running", id |-> id, fn |-> v.fn, input |-> data,
               frame |-> InitFrame]
  /\ returned' = NoRequest
  /\ UNCHANGED <<schema, E, globalRegistry, derived, built, jitVersion, jitAvailable, jitCache, validatorCache, validators>>

\* the running second-version routine executes one instruction
Step ==
  /\ call.state = "running"
  /\ LET code == FullCodeV2(InfoOf(validators[call.id]))
         st == StepV2(code, call.input, call.frame)
     IN call' = IF st.result = NoResult
                THEN [call EXCEPT !.frame = st]
                ELSE Done(call.id, call.fn, call.input, st.result)
  /\ UNCHANGED <<schema, E, globalRegistry, derived, built, jitVersion, jitAvailable, jitCache, validatorCache,
                 validators, returned>>

\* schema.safeParse(data) called directly
Validate(data) ==
  /\ Quiet
  /\ call' = Done(0, "safeParse", data, safeParse(schema, data))
  /\ returned' = NoRequest
  /\ UNCHANGED <<schema, E, globalRegistry, derived, built, jitVersion, jitAvailable, jitCache, validatorCache, validators>>

Next ==
  \/ \E n \in Nodes : compile(n)
  \/ \E n \in Nodes : jit(n)
  \/ \E n \in Nodes : jitObject(n)
  \/ \E id \in 1..MaxValidators, data \in Inputs : Call(id, data)
  \/ \E data \in Inputs : Validate(data)
  \/ Step

Spec == Init /\ [][Next]_vars

\* the routine in progress keeps executing
FairSpec == Spec /\ WF_vars(Step)

\* ------------------------------------------------------------------
\* Bulk validation: filterValid(schema, values), partition(schema, values)
\* ------------------------------------------------------------------
\* the longest list of values handed to a bulk call
MaxBatch == 3

BatchValues == {Str(chars_a_b), Str(chars_invalid), Num(6)}

RECURSIVE Lists(_)
Lists(n) ==
  IF n = 0 THEN {<<>>}
  ELSE Lists(n - 1) \cup {Append(l, v) : l \in {m \in Lists(n - 1) : Len(m) = n - 1},
                                          v \in BatchValues}

RECURSIVE partition_loop(_, _, _, _, _)
RECURSIVE filterValid_loop(_, _, _, _)

\* a loop body that returns at the first value the validator rejects
partition_body_stopping(node, values, i, valid, invalid, result) ==
  IF Thrown(result) THEN result
  ELSE IF result.success
  THEN partition_loop(node, values, i + 1, Append(valid, result.data), invalid)
  ELSE [valid |-> valid,
        invalid |-> Append(invalid, [value |-> values[i], issues |-> result.issues])]

\* the body of the loop of partition for value i, result being what
\* compiled.validate(value) returned
partition_body(node, values, i, valid, invalid, result) ==
  IF Thrown(result) THEN result
  ELSE IF result.success
  THEN partition_loop(node, values, i + 1, Append(valid, result.data), invalid)
  ELSE partition_loop(node, values, i + 1, valid,
         Append(invalid, [value |-> values[i], issues |-> result.issues]))

\* the loop of partition over values from value i on
partition_loop(node, values, i, valid, invalid) ==
  IF i > Len(values) THEN [valid |-> valid, invalid |-> invalid]
  ELSE partition_body(node, values, i, valid, invalid, compile_validate(node, values[i]))

\* the body of the loop of filterValid for value i
filterValid_body(node, values, i, valid, result) ==
  IF Thrown(result) THEN result
  ELSE IF result.success
  THEN filterValid_loop(node, values, i + 1, Append(valid, result.data))
  ELSE filterValid_loop(node, values, i + 1, valid)

\* the loop of filterValid over values from value i on
filterValid_loop(node, values, i, valid) ==
  IF i > Len(values) THEN valid
  ELSE filterValid_body(node, values, i, valid, compile_validate(node, values[i]))

\* const compiled = compile(schema) inside a bulk call on node n: the cached
\* validator, or a new one that is cached
Compiled(n) ==
  IF validatorCache[n] # 0
  THEN UNCHANGED <<validatorCache, validators>>
  ELSE /\ Len(validators) < MaxValidators
       /\ validators' = Append(validators, [fn |-> "compile", node |-> n])
       /\ validatorCache' = [validatorCache EXCEPT ![n] = NewId]

\* partition(schema, values) on node n
partition(n, values) ==
  /\ Quiet
  /\ Compiled(n)
  /\ call' = Done(validatorCache'[n], "partition", values,
                  partition_loop(schema, values, 1, <<>>, <<>>))
  /\ returned' = NoRequest
  /\ UNCHANGED <<schema, E, globalRegistry, derived, built, jitVersion, jitAvailable, jitCache>>

\* filterValid(schema, values) on node n
filterValid(n, values) ==
  /\ Quiet
  /\ Compiled(n)
  /\ call' = Done(validatorCache'[n], "filterValid", values,
                  filterValid_loop(schema, values, 1, <<>>))
  /\ returned' = NoRequest
  /\ UNCHANGED <<schema, E, globalRegistry, derived, built, jitVersion, jitAvailable, jitCache>>

BatchInit == Init /\ jitVersion = 2 /\ jitAvailable

BatchNext ==
  \/ \E n \in Nodes, values \in Lists(MaxBatch) : partition(n, values)
  \/ \E n \in Nodes, values \in Lists(MaxBatch) : filterValid(n, values)

BatchSpec == BatchInit /\ [][BatchNext]_vars

\* ------------------------------------------------------------------
\* Callers that write to the result a second-version routine returned
\* ------------------------------------------------------------------
\* the message a caller writes into a result it was given
Tampered == Fail(<<Issue("tampered")>>)

\* the caller of the finished call does result.issues[0].message = 'tampered'
\* on the failure it got back, which is the object E[name], and drops it
Tamper(name) ==
  /\ call.state = "done"
  /\ call.fn \in {"jit", "jitObject"}
  /\ jitVersion = 2
  /\ Failed(call.result)
  /\ E[name] = PRE_ERRORS(name)
  /\ call.result = E[name]
  /\ E' = [E EXCEPT ![name] = Tampered]
  /\ call' = Idle
  /\ UNCHANGED <<schema, globalRegistry, derived, built, jitVersion, jitAvailable, jitCache,
                 validatorCache, validators, returned>>

AliasInit == Init /\ jitVersion = 2 /\ jitAvailable

AliasNext ==
  \/ \E n \in Nodes : jit(n)
  \/ \E n \in Nodes : jitObject(n)
  \/ \E id \in 1..MaxValidators, data \in Inputs : Call(id, data)
  \/ Step
  \/ \E name \in ErrorNames : Tamper(name)

AliasSpec == AliasInit /\ [][AliasNext]_vars

\* ------------------------------------------------------------------
\* ZodError.flatten()
\* ------------------------------------------------------------------
\* String(segment), as Array.prototype.join renders a path segment
SegmentString(seg) == IF "idx" \in DOMAIN seg THEN ToString(seg.idx) ELSE seg.key

\* path.join('.') from segment i on
RECURSIVE Join(_, _)
Join(path, i) ==
  IF i > Len(path) THEN ""
  ELSE IF i = Len(path) THEN SegmentString(path[i])
  ELSE SegmentString(path[i]) \o "." \o Join(path, i + 1)

\* fieldErrors[key] ??= []; fieldErrors[key].push(message)
PushFieldError(fieldErrors, key, message) ==
  IF \E j \in 1..Len(fieldErrors) : fieldErrors[j].key = key
  THEN [j \in 1..Len(fieldErrors) |->
          IF fieldErrors[j].key = key
          THEN [key |-> key, messages |-> Append(fieldErrors[j].messages, message)]
          ELSE fieldErrors[j]]
  ELSE Append(fieldErrors, [key |-> key, messages |-> <<message>>])

\* the loop of flatten() over this.issues from issue i on
RECURSIVE flatten(_, _, _, _)
flatten(issues, i, formErrors, fieldErrors) ==
  IF i > Len(issues) THEN [formErrors |-> formErrors, fieldErrors |-> fieldErrors]
  ELSE IF Len(PathOf(issues[i])) = 0
       THEN flatten(issues, i + 1, Append(formErrors, issues[i].message), fieldErrors)
       ELSE flatten(issues, i + 1, formErrors,
              PushFieldError(fieldErrors, Join(PathOf(issues[i]), 1), issues[i].message))

\* ------------------------------------------------------------------
\* Building nodes and validating with them
\* ------------------------------------------------------------------
\* how many nodes the builder calls may create
MaxDerived == 2

\* node reference r: 0 is the schema, i >= 1 the i-th node built from it
NodeAt(r) == IF r = 0 THEN schema ELSE derived[r]

\* the node a chained builder call is made on: the one built last
Receiver == Len(derived)

\* a node that has the object builder methods
IsObjectNode(node) == node.kind \in {"object", "zobject"}

\* a builder that writes its result over the node it was called on
StoreInPlace(nodes, r, node) ==
  IF r = 0 THEN Append(nodes, node) ELSE [nodes EXCEPT ![r] = node]

\* createObjectSchema(...) returns a new node object: the nodes there are,
\* and the new one after them
Store(nodes, r, node) == Append(nodes, node)

SchemaInit ==
  /\ schema \in SchemaNodes
  /\ jitVersion = 2
  /\ jitAvailable = TRUE
  /\ jitCache = [n \in Nodes |-> 0]
  /\ validatorCache = [n \in Nodes |-> 0]
  /\ validators = <<>>
  /\ returned = NoRequest
  /\ call = Idle
  /\ derived = <<>>
  /\ built = NoBuild
  /\ E = [name \in ErrorNames |-> PRE_ERRORS(name)]
  /\ globalRegistry = createRegistry

\* a builder method called on the receiver returns node
Builds(op, node) ==
  /\ IsObjectNode(NodeAt(Receiver))
  /\ Len(derived) < MaxDerived
  /\ derived' = Store(derived, Receiver, node)
  /\ built' = [op |-> op, from |-> Receiver, to |-> Len(derived')]
  /\ call' = Idle
  /\ UNCHANGED <<schema, E, globalRegistry, jitVersion, jitAvailable, jitCache, validatorCache,
                 validators, returned>>

Partial == Builds("partial", object_partial(NodeAt(Receiver)))
Pick == Builds("pick", object_pick(NodeAt(Receiver), <<"a">>))
Omit == Builds("omit", object_omit(NodeAt(Receiver), <<"a">>))
Extend == Builds("extend", object_extend(NodeAt(Receiver), extensionShape))
Merge == Builds("merge", object_merge(NodeAt(Receiver), schema))
Passthrough == Builds("passthrough", object_passthrough(NodeAt(Receiver)))
Strict == Builds("strict", object_strict(NodeAt(Receiver)))

\* readonly(schema) hands back the node it was given
Readonly ==
  /\ built' = [op |-> "readonly", from |-> Receiver, to |-> Receiver]
  /\ built' # built
  /\ call' = Idle
  /\ UNCHANGED <<schema, E, globalRegistry, derived, jitVersion, jitAvailable, jitCache, validatorCache,
                 validators, returned>>

\* a finished safeParse call on the node with reference r
Parsed(r, data, result) ==
  [state |-> "done", id |-> 0, fn |-> "safeParse", node |-> r, input |-> data,
   result |-> result]

\* NodeAt(r).safeParse(data), on the schema or on the node built last
Parse(r, data) ==
  /\ r \in {0, Receiver}
  /\ call' = Parsed(r, data, safeParse(NodeAt(r), data))
  /\ UNCHANGED <<schema, E, globalRegistry, derived, built, jitVersion, jitAvailable, jitCache,
                 validatorCache, validators, returned>>

\* new ZodError(new SchemaError(result.issues)).flatten() on the failure the
\* call just returned
Flatten ==
  /\ call.state = "done"
  /\ call.fn = "safeParse"
  /\ Failed(call.result)
  /\ call' = [state |-> "done", id |-> 0, fn |-> "flatten", node |-> call.node,
              input |-> call.input, issues |-> call.result.issues,
              result |-> flatten(call.result.issues, 1, <<>>, <<>>)]
  /\ UNCHANGED <<schema, E, globalRegistry, derived, built, jitVersion, jitAvailable, jitCache,
                 validatorCache, validators, returned>>

SchemaNext ==
  \/ Partial
  \/ Pick
  \/ Omit
  \/ Extend
  \/ Merge
  \/ Passthrough
  \/ Strict
  \/ Readonly
  \/ Flatten
  \/ \E r \in 0..MaxDerived, data \in SchemaInputs : Parse(r, data)

SchemaSpec == SchemaInit /\ [][SchemaNext]_vars

\* ------------------------------------------------------------------
\* Properties
\* ------------------------------------------------------------------
\* what schema.safeParse reports for the input of the current call
Generic == safeParse(schema, call.input)

\* a call of the validator jit(schema) returned has finished
JitDone == call.state = "done" /\ call.fn = "jit"

\* two outcomes a caller cannot tell apart: the same exception, or the same
\* status with equal data on success and equal (message, path) pairs on failure
SameResult(r, g) ==
  IF Thrown(r) \/ Thrown(g) THEN r = g
  ELSE /\ r.success = g.success
       /\ r.success => DeepEq(r.data, g.data)
       /\ ~r.success => Pairs(r) = Pairs(g)

\* C1: the validator jit(S) returns accepts an input exactly when
\* S.safeParse accepts it (calls where either side throws set aside).
C1_JitAcceptsIffSafeParse ==
  (JitDone /\ ~Thrown(call.result) /\ ~Thrown(Generic))
    => (Succeeded(call.result) <=> Succeeded(Generic))

\* C2: when jit(S)(x) and S.safeParse(x) both reject x, they carry the same
\* (message, path) pairs: as many issues, the same messages, the same paths.
C2_JitSameIssuePairs ==
  (JitDone /\ Failed(call.result) /\ Failed(Generic))
    => Pairs(call.result) = Pairs(Generic)

\* C3: when jit(S)(x) and S.safeParse(x) both accept x, the data they return
\* are equal (transforms and defaults applied, undeclared keys removed).
C3_JitSameSuccessValue ==
  (JitDone /\ Succeeded(call.result) /\ Succeeded(Generic))
    => DeepEq(call.result.data, Generic.data)

\* C4: compile(S).validate(x) and S.safeParse(x) are indistinguishable: same
\* status, same value on success, same issues on failure.
C4_CompileSameAsSafeParse ==
  (call.state = "done" /\ call.fn = "compile") => SameResult(call.result, Generic)

\* extraction does not represent the node or one of its sub-nodes: its type
\* is unknown, a check has no generated code, or a check that takes an
\* argument has lost it
RECURSIVE NotRepresented(_)
NotRepresented(info) ==
  \/ info.type = "unknown"
  \/ \E i \in 1..Len(info.checks) :
       \/ generateCheckCode(info.checks[i]).test = "none"
       \/ info.checks[i].name \in {"min", "max", "length"} /\ info.checks[i].args = <<>>
  \/ /\ "shape" \in DOMAIN info
     /\ \E i \in 1..Len(info.shape) : NotRepresented(info.shape[i].info)
  \/ /\ "element" \in DOMAIN info
     /\ NotRepresented(info.element)

\* C5: when extraction does not represent a node, the routine jit(S) returns
\* skips none of the checks of S.safeParse: an input S.safeParse rejects is
\* never accepted by the routine.
C5_UnrepresentedNodeDefers ==
  (JitDone /\ NotRepresented(extractSchemaInfo(schema)) /\ Failed(Generic))
    => ~Succeeded(call.result)

\* C6: a cache entry, once set, is never replaced or removed, the validator
\* it names is never changed, and a compile()/jit() request for a node with
\* an entry returns the validator of that entry.
C6_CacheAppendOnly ==
  [][\A n \in Nodes :
       /\ jitCache[n] # 0 => jitCache'[n] = jitCache[n]
       /\ validatorCache[n] # 0 => validatorCache'[n] = validatorCache[n]
       /\ \A i \in 1..Len(validators) :
            i \in 1..Len(validators') /\ validators'[i] = validators[i]
       /\ (jitCache[n] # 0 /\ returned'.op = "jit" /\ returned'.node = n)
            => returned'.id = jitCache[n]
       /\ (validatorCache[n] # 0 /\ returned'.op = "compile" /\ returned'.node = n)
            => returned'.id = validatorCache[n]]_vars

\* a jit() request answered from the cache
C6_CachedJitReturned ==
  /\ returned.op = "jit"
  /\ returned.hit
  /\ returned.id = jitCache[returned.node]
  /\ validators[returned.id].fn = "jit"

\* C7: the fallback wrapper jit() returns is the entry of the cache for the
\* node, so later jit() requests return that same wrapper.
C7_FallbackCached ==
  (returned.op = "jit" /\ validators[returned.id].fn = "fallback")
    => jitCache[returned.node] = returned.id

\* C8: jit() and jitObject() hand back a validator also when synthesis is
\* unavailable or throws, and that validator reports what generic validation
\* reports: the fallback of jit() returns the outcome of schema.safeParse,
\* the fallback of jitObject() accepts exactly when the fields validate and
\* each issue it reports is an issue generic validation of the object reports.
C8_SynthesisFailureNotSurfaced ==
  /\ returned.op \in {"jit", "jitObject"} => returned.id \in 1..Len(validators)
  /\ (call.state = "done" /\ call.fn = "fallback") => call.result = Generic
  /\ (call.state = "done" /\ call.fn = "jitObjectFallback"
        /\ ~Thrown(call.result) /\ ~Thrown(Generic))
       => /\ Succeeded(call.result) <=> Succeeded(Generic)
          /\ Failed(call.result) =>
               \A i \in 1..Len(call.result.issues) :
                 \E j \in 1..Len(Generic.issues) : Pairs(call.result)[i] = Pairs(Generic)[j]

\* the fallback of jitObject(), built because new Function threw on the
\* generated code, has rejected an input
C8_FallbackAfterSynthesisThrew ==
  /\ call.state = "done"
  /\ call.fn = "jitObjectFallback"
  /\ jitAvailable
  /\ SynthesisThrows(jitObject_info(schema.shape))
  /\ Failed(call.result)

\* C9: no call of safeParse or of a compiled routine ends in an exception.
C9_NeverThrows ==
  call.state = "done" => ~Thrown(call.result)

\* C10: every call of a compiled routine that has started returns.
C10_EveryCallReturns ==
  (call.state = "running") ~> (call.state = "done")

\* ------------------------------------------------------------------
\* Properties of nodes and builders
\* ------------------------------------------------------------------
\* a safeParse call on a node has returned
ParseDone == call.state = "done" /\ call.fn = "safeParse"

\* the node the finished call was made on
ParsedNode == NodeAt(call.node)

\* C11: when validation of a node whose refinements are a registered list
\* fails, the failure carries exactly one issue (the first failing
\* refinement's), never one issue per failing refinement.
C11_FirstFailingRefinementOnly ==
  (ParseDone /\ ParsedNode.kind \in {"schema", "mini"} /\ Failed(call.result))
    => Len(call.result.issues) = 1

\* a node with no children of its own
IsLeaf(node) == node.kind \in {"schema", "mini"}

\* the fields of an object node whose own validation fails on the input's value
FailingFields(node, data) ==
  {i \in 1..Len(node.shape) :
     Failed(safeParse(node.shape[i].schema, ObjGet(data, node.shape[i].key)))}

\* the elements of an array input the element node fails on
FailingElements(node, data) ==
  {i \in 1..Len(data.e) : Failed(safeParse(node.element, data.e[i]))}

\* a non-strict object of leaves, or an array of leaves, was given an input
\* of its own type
FlatCompositeParsed ==
  /\ ParseDone
  /\ \/ /\ IsObjectNode(ParsedNode)
        /\ ~ParsedNode.strict
        /\ \A i \in 1..Len(ParsedNode.shape) : IsLeaf(ParsedNode.shape[i].schema)
        /\ call.input.k = "object"
     \/ /\ ParsedNode.kind = "array"
        /\ IsLeaf(ParsedNode.element)
        /\ call.input.k = "array"

\* the number of its fields or elements that fail
FailingChildren ==
  IF ParsedNode.kind = "array"
  THEN Cardinality(FailingElements(ParsedNode, call.input))
  ELSE Cardinality(FailingFields(ParsedNode, call.input))

\* C12: an object or array input with K >= 1 failing fields or elements is
\* rejected with exactly K issues.
C12_OneIssuePerFailingChild ==
  (FlatCompositeParsed /\ FailingChildren >= 1)
    => (Failed(call.result) /\ Len(call.result.issues) = FailingChildren)

\* Where validation of data by node goes wrong, found from the root down:
\* the locations of the leaves that reject their value (leaf TRUE) and the
\* locations where something other than a leaf's rejection happens (leaf
\* FALSE): a composite given a value of the wrong type or size, an
\* undeclared key in strict mode, a node of another kind, an exception.
RECURSIVE Failures(_, _, _)
Failures(node, data, at) ==
  LET result == safeParse(node, data)
      other == {[path |-> at, leaf |-> FALSE]}
  IN CASE IsLeaf(node) ->
            IF Thrown(result) THEN other
            ELSE IF Failed(result) THEN {[path |-> at, leaf |-> TRUE]}
            ELSE {}
       [] IsObjectNode(node) ->
            IF data.k # "object" \/ node.strict THEN other
            ELSE UNION {Failures(node.shape[i].schema, ObjGet(data, node.shape[i].key),
                                 Append(at, Key(node.shape[i].key)))
                        : i \in 1..Len(node.shape)}
       [] node.kind = "array" ->
            IF data.k # "array" THEN other
            ELSE UNION {Failures(node.element, data.e[i], Append(at, Idx(i - 1)))
                        : i \in 1..Len(data.e)}
       [] node.kind = "tuple" ->
            IF data.k # "array" \/ Len(data.e) # Len(node.items) THEN other
            ELSE UNION {Failures(node.items[i], data.e[i], Append(at, Idx(i - 1)))
                        : i \in 1..Len(data.e)}
       [] node.kind = "record" ->
            IF data.k # "object" THEN other
            ELSE UNION {Failures(node.value, data.f[i].val, Append(at, Key(data.f[i].key)))
                        : i \in 1..Len(data.f)}
       [] OTHER -> other

\* what is wrong with the input of the finished call
CallFailures == Failures(ParsedNode, call.input, <<>>)

\* the only thing wrong with the input of the finished call is one leaf
SingleFailingLeaf ==
  /\ ParseDone
  /\ ParsedNode.kind \in {"object", "zobject", "array", "tuple", "record"}
  /\ Cardinality(CallFailures) = 1
  /\ \A f \in CallFailures : f.leaf

\* the keys and indices from the root to that leaf
FailingLeafPath == (CHOOSE f \in CallFailures : TRUE).path

\* C13: a single failing leaf anywhere under nested objects, arrays, tuples
\* and records yields exactly one issue, and its path is the sequence of
\* keys and indices from the root to the leaf.
C13_SingleLeafOneIssueExactPath ==
  SingleFailingLeaf
    => /\ Failed(call.result)
       /\ Len(call.result.issues) = 1
       /\ PathOf(call.result.issues[1]) = FailingLeafPath

\* every issue of a single failing leaf carries the leaf's path
SingleLeafExactPaths ==
  SingleFailingLeaf
    => /\ Failed(call.result)
       /\ \A i \in 1..Len(call.result.issues) :
            PathOf(call.result.issues[i]) = FailingLeafPath

\* the keys an object node declares
ShapeKeys(node) == {node.shape[i].key : i \in 1..Len(node.shape)}

\* the keys of an object input the node does not declare
UndeclaredKeys(node, data) ==
  {data.f[i].key : i \in 1..Len(data.f)} \ ShapeKeys(node)

\* a strict object node was given an object
StrictParsed ==
  /\ ParseDone
  /\ IsObjectNode(ParsedNode)
  /\ ParsedNode.strict
  /\ call.input.k = "object"

\* C14: in strict mode every input key the shape does not declare makes
\* validation fail with an "Unexpected property" issue whose path is
\* exactly that key.
C14_StrictFlagsUndeclaredKeys ==
  StrictParsed =>
    \A key \in UndeclaredKeys(ParsedNode, call.input) :
      /\ Failed(call.result)
      /\ \E i \in 1..Len(call.result.issues) :
           call.result.issues[i] = IssueAt(UnexpectedMessage(key), <<Key(key)>>)

\* a strict node rejected an input all of whose declared fields are valid
\* and which has two undeclared keys
C14_StrictRejectedExtras ==
  /\ StrictParsed
  /\ FailingFields(ParsedNode, call.input) = {}
  /\ Cardinality(UndeclaredKeys(ParsedNode, call.input)) = 2
  /\ Failed(call.result)

\* C15: the output of a non-strict, non-passthrough object node that
\* accepts its input has no key the shape does not declare.
C15_UndeclaredKeysDropped ==
  (/\ ParseDone
   /\ IsObjectNode(ParsedNode)
   /\ ~ParsedNode.strict
   /\ ~ParsedNode.passthrough
   /\ Succeeded(call.result))
    => UndeclaredKeys(ParsedNode, call.result.data) = {}

\* the nodes there are: the schema and the nodes built from it
Heap == {NodeAt(r) : r \in 0..Len(derived)}

\* C16: no sequence of builder calls yields an object node on which both
\* strict and passthrough are enabled.
C16_StrictPassthroughExclusive ==
  \A node \in Heap : IsObjectNode(node) => ~(node.strict /\ node.passthrough)

\* the modifier and shape-editing operations of an object node
BuilderOps == {"partial", "pick", "omit", "extend", "merge", "passthrough", "strict"}

\* C17: no step changes a node there already is (its shape, its options and
\* with them what safeParse returns), and each of partial, pick, omit,
\* extend, merge, passthrough and strict returns a node that was not there
\* before.
C17_NodesNeverMutated ==
  [][/\ schema' = schema
     /\ Len(derived') >= Len(derived)
     /\ \A r \in 1..Len(derived) : derived'[r] = derived[r]
     /\ (built' # built /\ built'.op \in BuilderOps)
          => /\ built'.to = Len(derived) + 1
             /\ Len(derived') = Len(derived) + 1]_vars

\* after schema.strict() returned a node that rejects the input, the
\* schema itself still accepts it
C17_OriginalUsableAfterStrict ==
  /\ built = [op |-> "strict", from |-> 0, to |-> 1]
  /\ ParseDone
  /\ call.node = 0
  /\ Succeeded(call.result)
  /\ Failed(safeParse(derived[1], call.input))

\* what option i of the union just called returns for the call's input
OptionResult(i) == safeParse(ParsedNode.options[i], call.input)

UnionParsed == ParseDone /\ ParsedNode.kind = "union"

\* C18: a union returns, verbatim, the result of the first option in
\* declared order that succeeds, whatever the options after it would do.
C18_UnionFirstMatchVerbatim ==
  UnionParsed =>
    \A i \in 1..Len(ParsedNode.options) :
      (/\ Succeeded(OptionResult(i))
       /\ \A j \in 1..(i - 1) : Failed(OptionResult(j)))
        => call.result = OptionResult(i)

\* both options accept the input with different outputs, and the union
\* returned the first one's
C18_FirstOfTwoMatchesReturned ==
  /\ UnionParsed
  /\ Succeeded(OptionResult(1))
  /\ Succeeded(OptionResult(2))
  /\ OptionResult(1) # OptionResult(2)
  /\ call.result = OptionResult(1)

\* the option after the first match throws when invoked, and the union
\* returned the first match
UnionLaterOptionNotConsulted ==
  /\ UnionParsed
  /\ Succeeded(OptionResult(1))
  /\ Thrown(OptionResult(2))
  /\ call.result = OptionResult(1)

\* a structural record: an object that is neither null nor an array
IsRecord(v) == v.k = "object"

\* o is the shallow union of the records l and r, r's keys winning
ShallowUnion(o, l, r) ==
  /\ IsRecord(o)
  /\ {o.f[i].key : i \in 1..Len(o.f)}
       = {l.f[i].key : i \in 1..Len(l.f)} \cup {r.f[i].key : i \in 1..Len(r.f)}
  /\ \A i \in 1..Len(o.f) :
       o.f[i].val = IF HasKey(r, o.f[i].key) THEN ObjGet(r, o.f[i].key)
                    ELSE ObjGet(l, o.f[i].key)

\* what the operands of the intersection just called return for its input
LeftResult == safeParse(ParsedNode.left, call.input)
RightResult == safeParse(ParsedNode.right, call.input)

\* C19: when both operands of an intersection succeed, the result is the
\* shallow union of their outputs (right wins) if both are structural
\* records, and the left operand's output unchanged otherwise.
C19_IntersectionMergesRecordsOnly ==
  (/\ ParseDone
   /\ ParsedNode.kind = "intersection"
   /\ Succeeded(LeftResult)
   /\ Succeeded(RightResult))
    => /\ Succeeded(call.result)
       /\ IF IsRecord(LeftResult.data) /\ IsRecord(RightResult.data)
          THEN ShallowUnion(call.result.data, LeftResult.data, RightResult.data)
          ELSE call.result.data = LeftResult.data

OptionalParsed == ParseDone /\ ParsedNode.kind = "optional"

OptionalDelegatedRejection ==
  /\ OptionalParsed
  /\ call.input # Undef
  /\ Failed(call.result)

DefaultParsed == ParseDone /\ ParsedNode.kind = "default"

DefaultDelegatedNull ==
  /\ DefaultParsed
  /\ call.input = Null
  /\ Failed(call.result)

\* the finished call was made on a node with a mapping function, whose
\* inner validation accepted the input and whose mapping function threw
TransformThrew ==
  /\ ParseDone
  /\ \/ /\ ParsedNode.kind = "transform"
        /\ Succeeded(safeParse(ParsedNode.inner, call.input))
        /\ Thrown(ApplyFn(ParsedNode.fn, safeParse(ParsedNode.inner, call.input).data))
     \/ /\ ParsedNode.kind = "schema"
        /\ ParsedNode.transform # "none"
        /\ Succeeded(safeParse([ParsedNode EXCEPT !.transform = "none"], call.input))
        /\ Thrown(ApplyFn(ParsedNode.transform, call.input))

\* C22: when the mapping function of a transform throws on a validated
\* value, safeParse returns a failure carrying an issue; the exception does
\* not reach the caller.
C22_TransformThrowBecomesIssue ==
  TransformThrew => (Failed(call.result) /\ Len(call.result.issues) >= 1)

\* the node, or a node under it, maps its output with a function
RECURSIVE ContainsTransform(_)
ContainsTransform(node) ==
  CASE node.kind = "transform" -> TRUE
    [] node.kind \in {"schema"} -> node.transform # "none"
    [] node.kind \in {"object", "zobject"} ->
         \E i \in 1..Len(node.shape) : ContainsTransform(node.shape[i].schema)
    [] node.kind = "array" -> ContainsTransform(node.element)
    [] node.kind = "tuple" -> \E i \in 1..Len(node.items) : ContainsTransform(node.items[i])
    [] node.kind = "record" -> ContainsTransform(node.value)
    [] node.kind = "union" -> \E i \in 1..Len(node.options) : ContainsTransform(node.options[i])
    [] node.kind = "intersection" ->
         ContainsTransform(node.left) \/ ContainsTransform(node.right)
    [] node.kind \in {"optional", "default", "catch", "refine"} -> ContainsTransform(node.inner)
    [] OTHER -> FALSE

\* the node of the finished call validating that call's own output
Revalidated == safeParse(ParsedNode, call.result.data)

\* C23: a node with no transform in it accepts its own successful output
\* and returns a value deep-equal to it.
C23_Idempotent ==
  (ParseDone /\ ~ContainsTransform(ParsedNode) /\ Succeeded(call.result))
    => (Succeeded(Revalidated) /\ DeepEq(Revalidated.data, call.result.data))

\* the same, for every node that is neither a default wrapper nor an
\* intersection
IdempotentOtherwise ==
  (/\ ParseDone
   /\ ~ContainsTransform(ParsedNode)
   /\ ParsedNode.kind \notin {"default", "intersection"}
   /\ Succeeded(call.result))
    => (Succeeded(Revalidated) /\ DeepEq(Revalidated.data, call.result.data))

FlattenDone == call.state = "done" /\ call.fn = "flatten"

\* a path rendered with numeric segments as [n] and string segments joined
\* by '.'
RECURSIVE RenderPath(_, _)
RenderPath(path, i) ==
  IF i > Len(path) THEN ""
  ELSE LET seg == path[i] IN
       (IF "idx" \in DOMAIN seg THEN "[" \o ToString(seg.idx) \o "]"
        ELSE IF i = 1 THEN seg.key ELSE "." \o seg.key)
       \o RenderPath(path, i + 1)

\* the messages, in order, of the issues whose index is in which
RECURSIVE MessagesOf(_, _, _)
MessagesOf(issues, i, which) ==
  IF i > Len(issues) THEN <<>>
  ELSE (IF i \in which THEN <<issues[i].message>> ELSE <<>>)
       \o MessagesOf(issues, i + 1, which)

\* the messages flatten owes the root list, and the list under key
RootMessages(issues) ==
  MessagesOf(issues, 1, {i \in 1..Len(issues) : PathOf(issues[i]) = <<>>})
GroupMessages(issues, key) ==
  MessagesOf(issues, 1,
    {i \in 1..Len(issues) :
       PathOf(issues[i]) # <<>> /\ RenderPath(PathOf(issues[i]), 1) = key})

\* C24: flatten puts the messages of the issues without a path into the
\* root list, and every other issue under the key that renders its path
\* (numbers as [n], strings joined by '.'), the messages of one key in
\* input order.
C24_FlattenGroupsByRenderedPath ==
  FlattenDone =>
    /\ call.result.formErrors = RootMessages(call.issues)
    /\ \A i \in 1..Len(call.issues) :
         PathOf(call.issues[i]) # <<>> =>
           \E j \in 1..Len(call.result.fieldErrors) :
             /\ call.result.fieldErrors[j].key = RenderPath(PathOf(call.issues[i]), 1)
             /\ call.result.fieldErrors[j].messages
                  = GroupMessages(call.issues, call.result.fieldErrors[j].key)

\* the same with the keys as path.join('.') writes them
FlattenGroupsByJoinedPath ==
  FlattenDone =>
    /\ call.result.formErrors = RootMessages(call.issues)
    /\ \A i \in 1..Len(call.issues) :
         PathOf(call.issues[i]) # <<>> =>
           \E j \in 1..Len(call.result.fieldErrors) :
             /\ call.result.fieldErrors[j].key = Join(PathOf(call.issues[i]), 1)
             /\ call.result.fieldErrors[j].messages
                  = MessagesOf(call.issues, 1,
                      {k \in 1..Len(call.issues) :
                         /\ PathOf(call.issues[k]) # <<>>
                         /\ Join(PathOf(call.issues[k]), 1) = call.result.fieldErrors[j].key})

\* C25: what a call returns depends on the node and the input alone; in
\* particular a failure returned by a generated routine holds what the
\* library put there, whatever callers did with the results of earlier
\* calls.
C25_ResultsNotShared ==
  (/\ call.state = "done"
   /\ call.fn \in {"jit", "jitObject"}
   /\ Failed(call.result))
    => call.result # Tampered

\* what the compiled validator of the schema returns for value i of the
\* finished bulk call
BatchResult(i) == compile_validate(schema, call.input[i])

\* the values of the finished bulk call the compiled validator accepts
Accepted == {i \in 1..Len(call.input) : Succeeded(BatchResult(i))}

\* the outputs of the accepted values, and the rejected values, in input order
RECURSIVE ValidFrom(_)
ValidFrom(i) ==
  IF i > Len(call.input) THEN <<>>
  ELSE (IF i \in Accepted THEN <<BatchResult(i).data>> ELSE <<>>) \o ValidFrom(i + 1)
RECURSIVE InvalidFrom(_)
InvalidFrom(i) ==
  IF i > Len(call.input) THEN <<>>
  ELSE (IF i \in Accepted THEN <<>> ELSE <<call.input[i]>>) \o InvalidFrom(i + 1)

BatchDone(fn) ==
  /\ call.state = "done"
  /\ call.fn = fn
  /\ \A i \in 1..Len(call.input) : ~Thrown(BatchResult(i))

\* C26: when the compiled validator returns for every value, partition
\* puts the output of each accepted value into valid and each rejected value
\* into invalid, both in input order, so the two lengths add up to the
\* number of values; filterValid returns partition's valid list.  When the
\* validator throws on a value, so does the bulk call.
C26_PartitionSplitsInOrder ==
  /\ BatchDone("partition") =>
       /\ ~Thrown(call.result)
       /\ call.result.valid = ValidFrom(1)
       /\ [j \in 1..Len(call.result.invalid) |-> call.result.invalid[j].value] = InvalidFrom(1)
       /\ Len(call.result.valid) + Len(call.result.invalid) = Len(call.input)
       /\ Len(call.result.valid) = Cardinality(Accepted)
  /\ BatchDone("filterValid") =>
       call.result = partition_loop(schema, call.input, 1, <<>>, <<>>).valid
  /\ (/\ call.state = "done"
      /\ call.fn \in {"partition", "filterValid"}
      /\ \E i \in 1..Len(call.input) : Thrown(BatchResult(i)))
       => Thrown(call.result)

\* partition returned two accepted values and one rejected value between them
C26_TwoValidOneInvalid ==
  /\ BatchDone("partition")
  /\ Len(call.input) = 3
  /\ Accepted = {1, 3}
  /\ Len(call.result.valid) = 2
  /\ Len(call.result.invalid) = 1

\* filterValid returned a list that leaves a rejected value out
FilterValidDropped ==
  /\ BatchDone("filterValid")
  /\ Len(call.input) = 3
  /\ Len(call.result) = 2

\* ------------------------------------------------------------------
\* vex: validators that are functions with an optional .safe form
\* ------------------------------------------------------------------
\* what a call of the throwing form does: return a value or throw
Returns(v) == [value |-> v]
Throws(class, message) == [thrown |-> message, class |-> class]

\* Result<T>
VOk(v) == [ok |-> TRUE, value |-> v]
VErr(error) == [ok |-> FALSE, error |-> error]

\* a validator made by createValidator: both forms are given
vex_str == [kind |-> "str"]
vex_num == [kind |-> "num"]
vex_int == [kind |-> "int"]
vex_positive == [kind |-> "positive"]
vex_min(n) == [kind |-> "min", n |-> n]

\* a plain function without .safe: "noSafe" throws new Error('Must be
\* string') off anything but a string, "throwsNonError" throws a string
custom(name) == [kind |-> "custom", name |-> name]

vex_pipe(vs) == [kind |-> "pipe", validators |-> vs]
vex_optional(validator) == [kind |-> "optional", validator |-> validator]
vex_nullable(validator) == [kind |-> "nullable", validator |-> validator]
vex_withDefault(validator, defaultValue) ==
  [kind |-> "withDefault", validator |-> validator, defaultValue |-> defaultValue]
vex_object(shape) == [kind |-> "object", entries |-> shape]
vex_array(itemValidator) == [kind |-> "array", itemValidator |-> itemValidator]

\* v.safe is set
HasSafe(v) == v.kind # "custom"

\* ToNumber(v), as the relational operators apply it; the strings of the
\* model hold no digits, so only the empty one is a number
RECURSIVE ToNumber(_)
ToNumber(v) ==
  CASE v.k = "number" -> v
    [] v.k = "undefined" -> NaN
    [] v.k = "null" -> Num(0)
    [] v.k = "boolean" -> IF v.b THEN Num(2) ELSE Num(0)
    [] v.k = "string" -> IF Len(v.s) = 0 THEN Num(0) ELSE NaN
    [] v.k = "array" ->
         IF Len(v.e) = 0 THEN Num(0)
         ELSE IF Len(v.e) > 1 THEN NaN
         ELSE IF v.e[1].k \in {"undefined", "null"} THEN Num(0)
         ELSE IF v.e[1].k \in {"number", "string", "array"} THEN ToNumber(v.e[1])
         ELSE NaN
    [] OTHER -> NaN

\* v <= 0 and v > 0: both are false when v converts to NaN
LessOrEqualZero(v) ==
  LET x == ToNumber(v) IN x.sp = "finite" /\ x.n <= 0
GreaterThanZero(v) ==
  LET x == ToNumber(v) IN x.sp = "Infinity" \/ (x.sp = "finite" /\ x.n > 0)

\* Number.isInteger(v)
IsInteger(v) == v.k = "number" /\ v.sp = "finite" /\ v.n % 2 = 0

MinMessage(n) == "Min " \o ToString(n) \o " chars"

\* the catch clauses of the safe forms: e instanceof Error ? e.message : 'Unknown error'
CaughtMessage(t) == IF t.class = "string" THEN "Unknown error" ELSE t.thrown

\* the catch clauses of the throwing forms of object and array: a
\* ValidationError is thrown again with the prefix, anything else as it is
Rethrow(prefix, t) ==
  IF t.class = "ValidationError" THEN Throws("ValidationError", prefix \o t.thrown) ELSE t

\* typeof value !== 'object' || value === null || Array.isArray(value)
NotAnObject(value) == value.k # "object"

RECURSIVE vex_call(_, _)
RECURSIVE vex_safe(_, _)
RECURSIVE pipe_fn(_, _, _)
RECURSIVE pipe_safe_all(_, _, _)
RECURSIVE pipe_safe(_, _, _)
RECURSIVE object_fn(_, _, _, _)
RECURSIVE object_safe(_, _, _, _)
RECURSIVE array_fn(_, _, _, _)
RECURSIVE array_safe(_, _, _, _)

\* validator(v), or validator.safe(v) where there is one: the branch every
\* safe form takes on the validators it was given
safe_or_try(validator, v) ==
  IF HasSafe(validator) THEN vex_safe(validator, v)
  ELSE LET t == vex_call(validator, v)
       IN IF Thrown(t) THEN VErr(CaughtMessage(t)) ELSE VOk(t.value)

\* pipe, throwing form: result = v(result) for each validator in turn
pipe_fn(vs, i, result) ==
  IF i > Len(vs) THEN Returns(result)
  ELSE LET t == vex_call(vs[i], result)
       IN IF Thrown(t) THEN t ELSE pipe_fn(vs, i + 1, t.value)

\* a pipe whose safe form goes on after a failure and reports the last one
pipe_safe_all(vs, i, result) ==
  IF i > Len(vs) THEN VOk(result)
  ELSE LET r == safe_or_try(vs[i], result)
       IN IF Thrown(r) THEN r
          ELSE IF ~r.ok
          THEN LET rest == pipe_safe_all(vs, i + 1, result)
               IN IF Thrown(rest) \/ ~rest.ok THEN rest ELSE r
          ELSE pipe_safe_all(vs, i + 1, r.value)

\* pipe, safe form: the first result that is not ok is returned
pipe_safe(vs, i, result) ==
  IF i > Len(vs) THEN VOk(result)
  ELSE LET r == safe_or_try(vs[i], result)
       IN IF Thrown(r) THEN r
          ELSE IF ~r.ok THEN r
          ELSE pipe_safe(vs, i + 1, r.value)

\* object, throwing form, from entry i on
object_fn(entries, i, input, result) ==
  IF i > Len(entries) THEN Returns(Obj(result))
  ELSE LET t == vex_call(entries[i].schema, ObjGet(input, entries[i].key))
       IN IF Thrown(t) THEN Rethrow(entries[i].key \o ": ", t)
          ELSE object_fn(entries, i + 1, input,
                         Append(result, Entry(entries[i].key, t.value)))

\* object, safe form, from entry i on
object_safe(entries, i, input, result) ==
  IF i > Len(entries) THEN VOk(Obj(result))
  ELSE LET r == safe_or_try(entries[i].schema, ObjGet(input, entries[i].key))
       IN IF Thrown(r) THEN r
          ELSE IF ~r.ok THEN VErr(entries[i].key \o ": " \o r.error)
          ELSE object_safe(entries, i + 1, input,
                           Append(result, Entry(entries[i].key, r.value)))

\* array, throwing form: value.map over the items, i counted from 0
array_fn(itemValidator, value, i, result) ==
  IF i >= Len(value.e) THEN Returns(Arr(result))
  ELSE LET t == vex_call(itemValidator, value.e[i + 1])
       IN IF Thrown(t) THEN Rethrow("[" \o ToString(i) \o "]: ", t)
          ELSE array_fn(itemValidator, value, i + 1, Append(result, t.value))

\* array, safe form
array_safe(itemValidator, value, i, result) ==
  IF i >= Len(value.e) THEN VOk(Arr(result))
  ELSE LET r == safe_or_try(itemValidator, value.e[i + 1])
       IN IF Thrown(r) THEN r
          ELSE IF ~r.ok THEN VErr("[" \o ToString(i) \o "]: " \o r.error)
          ELSE array_safe(itemValidator, value, i + 1, Append(result, r.value))

\* fn(v): the throwing form
vex_call(fn, v) ==
  CASE fn.kind = "str" ->
         IF v.k # "string" THEN Throws("ValidationError", "Expected string") ELSE Returns(v)
    [] fn.kind = "num" ->
         IF v.k # "number" \/ v.sp = "NaN"
         THEN Throws("ValidationError", "Expected number") ELSE Returns(v)
    [] fn.kind = "int" ->
         IF ~IsInteger(v) THEN Throws("ValidationError", "Must be integer") ELSE Returns(v)
    [] fn.kind = "positive" ->
         IF LessOrEqualZero(v) THEN Throws("ValidationError", "Must be positive")
         ELSE Returns(v)
    [] fn.kind = "min" ->
         IF JsLength(v) = -2 THEN Throws("TypeError", "Cannot read properties")
         ELSE IF JsLength(v) # -1 /\ JsLength(v) < fn.n
         THEN Throws("ValidationError", MinMessage(fn.n))
         ELSE Returns(v)
    [] fn.kind = "custom" ->
         IF fn.name = "throwsNonError" THEN Throws("string", "string error")
         ELSE IF v.k # "string" THEN Throws("Error", "Must be string")
         ELSE Returns(v)
    [] fn.kind = "pipe" -> pipe_fn(fn.validators, 1, v)
    [] fn.kind = "optional" ->
         IF v.k = "undefined" THEN Returns(Undef) ELSE vex_call(fn.validator, v)
    [] fn.kind = "nullable" ->
         IF v.k = "null" THEN Returns(Null) ELSE vex_call(fn.validator, v)
    [] fn.kind = "withDefault" ->
         IF v.k = "undefined" THEN Returns(fn.defaultValue) ELSE vex_call(fn.validator, v)
    [] fn.kind = "object" ->
         IF NotAnObject(v) THEN Throws("ValidationError", "Expected object")
         ELSE object_fn(fn.entries, 1, v, <<>>)
    [] fn.kind = "array" ->
         IF v.k # "array" THEN Throws("ValidationError", "Expected array")
         ELSE array_fn(fn.itemValidator, v, 0, <<>>)

\* fn.safe(v): the safe form
vex_safe(fn, v) ==
  CASE fn.kind = "str" -> IF v.k = "string" THEN VOk(v) ELSE VErr("Expected string")
    [] fn.kind = "num" ->
         IF v.k = "number" /\ v.sp # "NaN" THEN VOk(v) ELSE VErr("Expected number")
    [] fn.kind = "int" -> IF IsInteger(v) THEN VOk(v) ELSE VErr("Must be integer")
    [] fn.kind = "positive" ->
         IF GreaterThanZero(v) THEN VOk(v) ELSE VErr("Must be positive")
    [] fn.kind = "min" ->
         IF JsLength(v) = -2 THEN Throws("TypeError", "Cannot read properties")
         ELSE IF JsLength(v) # -1 /\ JsLength(v) >= fn.n THEN VOk(v)
         ELSE VErr(MinMessage(fn.n))
    [] fn.kind = "pipe" -> pipe_safe(fn.validators, 1, v)
    [] fn.kind = "optional" ->
         IF v.k = "undefined" THEN VOk(Undef) ELSE safe_or_try(fn.validator, v)
    [] fn.kind = "nullable" ->
         IF v.k = "null" THEN VOk(Null) ELSE safe_or_try(fn.validator, v)
    [] fn.kind = "withDefault" ->
         IF v.k = "undefined" THEN VOk(fn.defaultValue) ELSE safe_or_try(fn.validator, v)
    [] fn.kind = "object" ->
         IF NotAnObject(v) THEN VErr("Expected object")
         ELSE object_safe(fn.entries, 1, v, <<>>)
    [] fn.kind = "array" ->
         IF v.k # "array" THEN VErr("Expected array")
         ELSE array_safe(fn.itemValidator, v, 0, <<>>)

\* the validators the calls are made on
ageValidator == vex_pipe(<<vex_num, vex_int, vex_positive>>)
nameValidator == vex_pipe(<<vex_str, vex_min(3)>>)

VexValidators ==
  { ageValidator,
    nameValidator,
    vex_pipe(<<vex_positive>>),
    vex_pipe(<<custom("noSafe"), vex_min(3)>>),
    vex_pipe(<<custom("throwsNonError")>>),
    vex_pipe(<<vex_optional(vex_str), vex_min(3)>>),
    vex_optional(nameValidator),
    vex_optional(custom("noSafe")),
    vex_nullable(vex_num),
    vex_withDefault(vex_str, Str(chars_a_b)),
    vex_object(<<Field("name", nameValidator), Field("age", vex_num)>>),
    vex_object(<<Field("name", custom("noSafe"))>>),
    vex_array(vex_num),
    vex_array(custom("noSafe")) }

VexInputs ==
  { Undef, Null, NaN, Num(6), Num(3), Num(-2), Num(-3), Str(chars_a_b), Str(chars_abc),
    Arr(<<Num(6), Str(chars_a_b)>>), Arr(<<Str(chars_abc)>>), Arr(<<Num(6), NaN>>),
    Obj(<<Entry("name", Str(chars_abc)), Entry("age", Num(6))>>),
    Obj(<<Entry("name", Str(chars_a_b)), Entry("age", Str(chars_a_b))>>),
    Obj(<<Entry("name", Num(6))>>) }

VexInit ==
  /\ schema \in VexValidators
  /\ jitVersion = 2
  /\ jitAvailable = TRUE
  /\ jitCache = [n \in Nodes |-> 0]
  /\ validatorCache = [n \in Nodes |-> 0]
  /\ validators = <<>>
  /\ returned = NoRequest
  /\ call = Idle
  /\ derived = <<>>
  /\ built = NoBuild
  /\ E = [name \in ErrorNames |-> PRE_ERRORS(name)]
  /\ globalRegistry = createRegistry

\* fn(data)
VexCall(data) ==
  /\ call' = Done(0, "fn", data, vex_call(schema, data))
  /\ UNCHANGED <<schema, E, globalRegistry, jitVersion, jitAvailable, jitCache, validatorCache,
                 validators, returned, derived, built>>

\* fn.safe(data)
VexSafe(data) ==
  /\ call' = Done(0, "safe", data, vex_safe(schema, data))
  /\ UNCHANGED <<schema, E, globalRegistry, jitVersion, jitAvailable, jitCache, validatorCache,
                 validators, returned, derived, built>>

VexNext ==
  \/ \E data \in VexInputs : VexCall(data)
  \/ \E data \in VexInputs : VexSafe(data)

VexSpec == VexInit /\ [][VexNext]_vars

\* a call of the named form on the validator has finished
VexDone(form) == call.state = "done" /\ call.fn = form

\* the value the i-th validator of a pipe is given when the ones before it
\* each accepted what they were given
RECURSIVE StageInput(_, _, _)
StageInput(vs, i, x) ==
  IF i = 1 THEN x ELSE safe_or_try(vs[i - 1], StageInput(vs, i - 1, x)).value

\* what the i-th validator of a pipe answers on its own
StageResult(vs, i, x) == safe_or_try(vs[i], StageInput(vs, i, x))

RECURSIVE StagesPass(_, _, _)
StagesPass(vs, n, x) ==
  \/ n = 0
  \/ /\ StagesPass(vs, n - 1, x)
     /\ ~Thrown(StageResult(vs, n, x))
     /\ StageResult(vs, n, x).ok

\* C27: the safe form of pipe(v1, ..., vn) answers what the first validator
\* that does not accept its input answers (its error result, or the
\* exception its safe form raised), each validator being given the output
\* of the one before; when all accept, the answer is the last output
C27_PipeStopsAtFirstFailure ==
  (VexDone("safe") /\ schema.kind = "pipe") =>
    LET vs == schema.validators
        x == call.input
    IN /\ \A i \in 1..Len(vs) :
            (StagesPass(vs, i - 1, x) /\ ~StagesPass(vs, i, x))
              => call.result = StageResult(vs, i, x)
       /\ StagesPass(vs, Len(vs), x)
            => call.result = VOk(StageInput(vs, Len(vs) + 1, x))

\* num, int, positive on -1.5: int and positive both reject it, and the
\* result is int's error
C27_FirstOfTwoFailuresReported ==
  /\ VexDone("safe")
  /\ schema = ageValidator
  /\ call.input = Num(-3)
  /\ ~vex_safe(vex_positive, call.input).ok
  /\ call.result = VErr("Must be integer")

\* the indexes (from 0) of the elements of the input that the element
\* schema of the array schema rejects
FailingIndexes ==
  {k \in 0..(Len(call.input.e) - 1) : Failed(safeParse(schema.element, call.input.e[k + 1]))}

\* C28: when the routine jit() generated for an array schema rejects an
\* array with a failing element, each issue's path starts with the number
\* index of a failing element.
C28_ElementIssuesIndexed ==
  (/\ JitDone
   /\ schema.kind = "array"
   /\ call.input.k = "array"
   /\ FailingIndexes # {}
   /\ Failed(call.result))
    => \A j \in 1..Len(call.result.issues) :
         /\ PathOf(call.result.issues[j]) # <<>>
         /\ \E k \in FailingIndexes : Head(PathOf(call.result.issues[j])) = Idx(k)

\* the throwing form's outcome t and the safe form's outcome r tell the same
\* story: t is an exception exactly when r is an error result, then with the
\* error's message as the error string, and a returned value is r's value
Agree(t, r) ==
  /\ Thrown(t) <=> (~Thrown(r) /\ ~r.ok)
  /\ (Thrown(t) /\ ~Thrown(r) /\ ~r.ok) => (t.class # "string" /\ t.thrown = r.error)
  /\ ~Thrown(t) => r = VOk(t.value)

\* C29: on every input the throwing form and the safe form of a validator
\* built with pipe, optional, nullable, withDefault, object or array agree:
\* one throws exactly when the other returns ok:false, with the same
\* message, and otherwise they return the same value.
C29_ThrowingAndSafeAgree ==
  /\ VexDone("fn") => Agree(call.result, vex_safe(schema, call.input))
  /\ VexDone("safe") => Agree(vex_call(schema, call.input), call.result)

\* ------------------------------------------------------------------
\* The global schema registry
\* ------------------------------------------------------------------
\* Map.prototype.has / get / set on the entries of a Map
MapHas(m, key) == \E i \in 1..Len(m) : m[i].key = key
MapGet(m, key) ==
  IF MapHas(m, key) THEN m[CHOOSE i \in 1..Len(m) : m[i].key = key].val ELSE "undefined"
MapSet(m, key, v) ==
  IF MapHas(m, key)
  THEN [i \in 1..Len(m) |-> IF m[i].key = key THEN Entry(key, v) ELSE m[i]]
  ELSE Append(m, Entry(key, v))

\* get(name), has(name), names(), nameOf(schema)
get(name) == MapGet(globalRegistry.schemas, name)
has(name) == MapHas(globalRegistry.schemas, name)
names == [i \in 1..Len(globalRegistry.schemas) |-> globalRegistry.schemas[i].key]
nameOf(s) == globalRegistry.nameMap[s]

\* what clear() leaves: schemas.clear()
clear_registry == [globalRegistry EXCEPT !.schemas = <<>>]

\* what register(name, schema) leaves: schemas.set, nameMap.set
register_registry(name, s) ==
  [schemas |-> MapSet(globalRegistry.schemas, name, s),
   nameMap |-> [globalRegistry.nameMap EXCEPT ![s] = name]]

\* register(name, schema)
register(name, s) ==
  /\ globalRegistry' = register_registry(name, s)
  /\ call' = Done(0, "register", name, s)
  /\ UNCHANGED <<schema, E, jitVersion, jitAvailable, jitCache, validatorCache,
                 validators, returned, derived, built>>

\* clear()
clear ==
  /\ globalRegistry' = clear_registry
  /\ call' = Done(0, "clear", "undefined", "undefined")
  /\ UNCHANGED <<schema, E, jitVersion, jitAvailable, jitCache, validatorCache,
                 validators, returned, derived, built>>

RegistryInit ==
  /\ schema = string
  /\ jitVersion = 2
  /\ jitAvailable = TRUE
  /\ jitCache = [n \in Nodes |-> 0]
  /\ validatorCache = [n \in Nodes |-> 0]
  /\ validators = <<>>
  /\ returned = NoRequest
  /\ call = Idle
  /\ derived = <<>>
  /\ built = NoBuild
  /\ E = [name \in ErrorNames |-> PRE_ERRORS(name)]
  /\ globalRegistry = createRegistry

RegistryNext ==
  \/ \E name \in RegistryNames, s \in RegistrySchemas : register(name, s)
  \/ clear

RegistrySpec == RegistryInit /\ [][RegistryNext]_vars

\* C30: whenever nameOf(schema) is a name n, get(n) is that schema; so after
\* clear() no schema has a name, and a schema whose name was given to
\* another schema no longer reports it.
C30_RegistryConsistent ==
  \A s \in RegistrySchemas :
    nameOf(s) # "undefined" => get(nameOf(s)) = s

====
